---- MODULE Spec2Model ----
(***************************************************************************)
(* Model of the ingestion + retrieval + completion pipeline:               *)
(*   - POST /api/chat/ask  (src/unnamed/part_001): paginated retrieval of  *)
(*     all chunks of a paper, formatContext, provider fallback loop;       *)
(*     the same route has a second copy in src/app/page.tsx (returns usage)*)
(*   - EmbeddingPipelineSingleton.getInstance and formatContext of the     *)
(*     route, and several invocations of the route in flight together;     *)
(*   - chunkText           (src/scripts/ingest.mjs): sliding-window chunker*)
(*   - ingestData          (src/scripts/ingest.mjs): collection setup, the *)
(*     document loop and the batched upserts; its embedding loop and the   *)
(*     names of its points apart; an ingestion run followed by a question; *)
(*   - handleChatSubmit    (src/app/paper/[paperId]/page.tsx): the chat of *)
(*     the paper page.                                                     *)
(*                                                                         *)
(* Strings are sequences of tokens (characters or fixed phrases), so that  *)
(* concatenation, trimming and joining are computed, not assumed.          *)
(***************************************************************************)
EXTENDS Integers, Sequences, FiniteSets, TLC

VARIABLES
    \* ---- vector store and request (POST /api/chat/ask) ----
    stored,               \* points of the collection, in the store's scan order
    storeKind,            \* how the store pages: "nullEnd", "absentEnd", "emptyPage"
    reqPaperId,           \* request body field paperId ("" when missing)
    reqMessage,           \* request body field message ("" when missing)
    reqBody,              \* what request.json() does: "object" or "unparseable"
    pc,                   \* position of the handler
    allChunks,            \* accumulator of the retrieval loop
    offset,               \* cursor variable of the retrieval loop
    scrolls,              \* history: every scroll call issued and what it returned
    context,              \* result of formatContext(allChunks)
    trying,               \* index into llmModelNames of the provider tried next
    finalAiResponseText,
    success,
    lastError,
    calls,                \* history: every provider call issued and its outcome
    response,             \* the HTTP response returned by the handler
    handler,              \* which copy of the route serves the request
    \* ---- chunkText(text, size, overlap) ----
    text, size, overlap,  \* the arguments
    start,                \* loop variable
    chunks,               \* windows pushed so far (before the filter)
    result,               \* the returned list
    iters,                \* loop iterations executed
    cpc,                  \* position inside chunkText
    \* ---- ingestData() ----
    tsExists,             \* the Typesense collection 'papers' exists
    tsDocs,               \* ids of the metadata records in it
    qExists,              \* the Qdrant collection 'paper_chunks' exists
    qPoints,              \* the points in it
    priorPoints,          \* history: the points an earlier run had written
    listing,              \* the entries of the PDF directory
    pdfFiles,             \* the entries kept by the extension filter
    fileIdx,              \* position of the document loop in pdfFiles
    nChunks,              \* chunks.length of the current document
    pointIdx,             \* i of the point loop
    qdrantPointsBatch,    \* the shared batch buffer
    upserts,              \* history: every upsert call, its points and outcome
    built,                \* history: every point pushed to the buffer
    processed,            \* history: how each document's iteration ended
    stages,               \* history: every stage run for a document, and its outcome
    setupFailure,         \* history: the setup step that failed, or "none"
    report,               \* the last line the run logged
    ipc,                  \* position inside ingestData
    \* ---- EmbeddingPipelineSingleton.getInstance ----
    instancePromise,      \* the static field: 0 for null, else the id of a load
    loads,                \* history: the state of every load started (by id)
    callers,              \* every caller of getInstance: its position and promise
    \* ---- formatContext(chunks) ----
    fcInput,              \* the argument as it was passed
    fcChunks,             \* the argument array after the call (sorted in place)
    fcResult,             \* the returned string
    fcpc,                 \* position inside formatContext
    \* ---- concurrent requests to POST /api/chat/ask ----
    requests,             \* per request: its locals of the retrieval loop
    \* ---- the embedding loop and the point loop of one document ----
    eChunks,              \* chunks: the texts returned by chunkText
    eIdx,                 \* i of the embedding loop
    chunkEmbeddings,      \* the vectors collected so far
    ePoints,              \* the points built by the point loop
    epc,                  \* position inside the two loops
    \* ---- the name hashed into a point id ----
    nPaperId, nIndex,     \* the document id and the chunk index
    nName,                \* `${paperId}_${i}`
    npc,                  \* whether the name has been formed
    \* ---- the chat of the paper page (handleChatSubmit) ----
    messages,             \* the chat messages shown
    inputMessage,         \* the text of the input box
    isAiResponding,
    inFlight,             \* the fetch of the submission not yet answered
    ignored               \* history: submissions that returned at the guard

askVars == <<stored, storeKind, reqPaperId, reqMessage, reqBody, pc, allChunks, offset,
             scrolls, context, trying, finalAiResponseText, success, lastError,
             calls, response, handler>>
chunkVars == <<text, size, overlap, start, chunks, result, iters, cpc>>
ingestVars == <<tsExists, tsDocs, qExists, qPoints, priorPoints, listing, pdfFiles,
                fileIdx, nChunks, pointIdx, qdrantPointsBatch, upserts, built,
                processed, stages, setupFailure, report, ipc>>
singletonVars == <<instancePromise, loads, callers>>
formatVars == <<fcInput, fcChunks, fcResult, fcpc>>
requestVars == <<requests>>
embedVars == <<eChunks, eIdx, chunkEmbeddings, ePoints, epc>>
nameVars == <<nPaperId, nIndex, nName, npc>>
chatVars == <<messages, inputMessage, isAiResponding, inFlight, ignored>>
vars == <<askVars, chunkVars, ingestVars, singletonVars, formatVars, requestVars,
          embedVars, nameVars, chatVars>>

\* The variables each part of the program leaves alone.
exceptAsk == <<chunkVars, ingestVars, singletonVars, formatVars, requestVars,
               embedVars, nameVars, chatVars>>
exceptChunk == <<askVars, ingestVars, singletonVars, formatVars, requestVars,
                 embedVars, nameVars, chatVars>>
exceptIngest == <<askVars, chunkVars, singletonVars, formatVars, requestVars,
                  embedVars, nameVars, chatVars>>
exceptSingleton == <<askVars, chunkVars, ingestVars, formatVars, requestVars,
                     embedVars, nameVars, chatVars>>
exceptFormat == <<askVars, chunkVars, ingestVars, singletonVars, requestVars,
                  embedVars, nameVars, chatVars>>
exceptRequests == <<askVars, chunkVars, ingestVars, singletonVars, formatVars,
                    embedVars, nameVars, chatVars>>
exceptEmbed == <<askVars, chunkVars, ingestVars, singletonVars, formatVars,
                 requestVars, nameVars, chatVars>>
exceptName == <<askVars, chunkVars, ingestVars, singletonVars, formatVars,
                requestVars, embedVars, chatVars>>
exceptChat == <<askVars, chunkVars, ingestVars, singletonVars, formatVars,
                requestVars, embedVars, nameVars>>

(***************************************************************************)
(* Bounds of the model.                                                    *)
(***************************************************************************)
MaxChunkIndex == 2     \* paper p1 has chunk indices 0..MaxChunkIndex available
MaxStored == 3         \* at most this many points are in the collection
PageLimit == 2         \* page size of a scroll call (500 in the source, scaled)
MaxScrollCalls == 3    \* cap on scroll calls of one request (the loop of a
                       \* store that never signals the end is unbounded)
MaxTextLen == 5        \* chunkText: longest text
MaxSize == 3           \* chunkText: largest window size
MaxOverlap == 4        \* chunkText: largest overlap
MaxDocChunks == 3      \* ingestData: most chunks of one document
BatchSize == 2         \* ingestData: qdrantBatchSize (100 in the source, scaled)

(***************************************************************************)
(* Generic helpers.                                                        *)
(***************************************************************************)
Min(a, b) == IF a <= b THEN a ELSE b

Range(s) == {s[k] : k \in 1..Len(s)}

\* All sequences over S of length at most n.
SeqsUpTo(S, n) == UNION {[1..k -> S] : k \in 0..n}

\* Array.prototype.join of a list of strings with a separator.
RECURSIVE Join(_, _)
Join(strs, sep) ==
    IF Len(strs) = 0 THEN <<>>
    ELSE IF Len(strs) = 1 THEN strs[1]
    ELSE strs[1] \o sep \o Join(Tail(strs), sep)

\* The value of a variable that holds JavaScript null where a string is expected.
Null == <<"<null>">>
\* A field that the JSON body of a response does not have.
Absent == <<"<absent>">>
\* JavaScript truthiness of a string-or-null value.
Truthy(s) == s # Null /\ s # <<>>

(***************************************************************************)
(* The vector store as the handler sees it.                                *)
(***************************************************************************)
Papers == {"p1", "p2"}

Digit == <<"0", "1", "2", "3", "4", "5", "6", "7", "8", "9">>

\* The text a chunk carries: distinct for every (paper, chunk index).
ChunkTextOf(p, i) == <<p, "#", Digit[i + 1]>>

\* A stored point as returned with with_payload: true, with_vector: false.
Point(p, i) == [paperId |-> p, chunkIndex |-> i, chunkText |-> ChunkTextOf(p, i)]

\* The points that can be in the collection: chunks of p1, and one of p2.
Universe == {Point("p1", i) : i \in 0..MaxChunkIndex} \cup {Point("p2", 0)}

\* Collections: any scan order of any subset (one point per id).
Collections ==
    {s \in SeqsUpTo(Universe, MaxStored) :
        \A a, b \in 1..Len(s) : a # b => s[a] # s[b]}

\* Cursor values: undefined (first call / absent field), null, or a position.
Undefined == [kind |-> "undefined"]
NullCursor == [kind |-> "null"]
Cursor(k) == [kind |-> "cursor", at |-> k]

\* A filter on a key no payload has: nothing is filtered out.
MatchingAnyPaper(paperId) == stored

\* Points matching filter {must: [{key: 'paperId', match: {value: paperId}}]}.
Matching(paperId) == SelectSeq(stored, LAMBDA pt : pt.paperId = paperId)

\* Where a scroll with this offset starts scanning the matching points.
ScanFrom(off) == IF off.kind = "cursor" THEN off.at ELSE 1

\* How the store signals that the scan is over.
EndSignal == IF storeKind = "absentEnd" THEN Undefined ELSE NullCursor

\* The page a scroll call with `limit: PageLimit, offset: off` returns.
ScrollPageOf(paperId, off) ==
    LET m == Matching(paperId)
        from == ScanFrom(off)
        to == Min(from + PageLimit - 1, Len(m))
    IN  [points |-> SubSeq(m, from, to),
         next_page_offset |-> IF to < Len(m) THEN Cursor(to + 1) ELSE EndSignal]

\* What qdrantClient.scroll can resolve to. A store of kind "emptyPage" may
\* also answer with an empty page that still carries a cursor.
ScrollResponses(paperId, off) ==
    {ScrollPageOf(paperId, off)}
    \cup (IF storeKind = "emptyPage"
          THEN {[points |-> <<>>, next_page_offset |-> Cursor(ScanFrom(off))]}
          ELSE {})

(***************************************************************************)
(* Retrieval loop and formatContext.                                       *)
(***************************************************************************)
\* if (offset === null || points.length === 0) break;
LoopBreaks(off, points) == off = NullCursor \/ Len(points) = 0

\* The push placed behind the break test: the page that ends the loop is dropped.
PushUnlessLast(acc, page) ==
    IF LoopBreaks(page.next_page_offset, page.points) THEN acc ELSE acc \o page.points

\* allChunks.push(...points)
PushAll(acc, page) == acc \o page.points

NoDataSentinel == <<"No text data was retrieved for the paper.">>

\* payload?.chunkIndex is there (not undefined).
HasIndex(pt) == "chunkIndex" \in DOMAIN pt

\* The comparator with a missing index counted as 0.
CompareMissingAsZero(a, b) ==
    (IF HasIndex(a) THEN a.chunkIndex ELSE 0) - (IF HasIndex(b) THEN b.chunkIndex ELSE 0)

\* (a.payload?.chunkIndex ?? Infinity) - (b.payload?.chunkIndex ?? Infinity);
\* Infinity - Infinity is NaN, which Array.prototype.sort takes as +0.
Compare(a, b) ==
    IF HasIndex(a) /\ HasIndex(b) THEN a.chunkIndex - b.chunkIndex
    ELSE IF HasIndex(a) THEN -1
    ELSE IF HasIndex(b) THEN 1
    ELSE 0

\* Insert pt behind every element that does not compare larger (stable).
RECURSIVE InsertByIndex(_, _)
InsertByIndex(sorted, pt) ==
    IF Len(sorted) = 0 THEN <<pt>>
    ELSE IF Compare(sorted[Len(sorted)], pt) <= 0
         THEN Append(sorted, pt)
         ELSE Append(InsertByIndex(SubSeq(sorted, 1, Len(sorted) - 1), pt),
                     sorted[Len(sorted)])

\* chunks.sort((a, b) => ...): Array.prototype.sort is stable.
RECURSIVE SortByIndex(_)
SortByIndex(cs) ==
    IF Len(cs) = 0 THEN <<>>
    ELSE InsertByIndex(SortByIndex(SubSeq(cs, 1, Len(cs) - 1)), cs[Len(cs)])

\* chunk.payload?.chunkText || '': a missing text counts as the empty one.
TextOf(pt) == IF "chunkText" \in DOMAIN pt THEN pt.chunkText ELSE <<>>

\* formatContext without the empty-list guard.
FormatContextNoGuard(cs) ==
    Join([k \in 1..Len(cs) |-> TextOf(SortByIndex(cs)[k])], <<"\n">>)

formatContext(cs) ==
    IF Len(cs) = 0 THEN NoDataSentinel
    ELSE Join([k \in 1..Len(cs) |-> TextOf(SortByIndex(cs)[k])], <<"\n">>)

(***************************************************************************)
(* Completion providers and the fallback loop.                             *)
(***************************************************************************)
llmModelNames ==
    <<"openai/gpt-4o-mini", "google/gemini-2.0-flash", "mistralai/mistral-7b-instruct">>

\* HTTP statuses a provider may answer with.
Statuses == {200, 201, 302, 404, 429, 500}

\* Response.ok
Ok(status) == status >= 200 /\ status <= 299

\* choices[0].message.content of a 2xx body: missing, or a string.
NoContent == Null
Contents == {NoContent, <<>>, <<" ">>, <<"X">>, <<" ", "X", " ">>}

\* The usage field of a 2xx body: missing, null, or the usage object.
Usages == {Absent, Null, <<"{prompt_tokens, total_tokens}">>}

\* What a provider call can do: answer with a status (a 2xx one carries a
\* body), or throw (network error, timeout).
ProviderOutcomes ==
    {[kind |-> "status", status |-> s, content |-> NoContent, usage |-> Absent] :
         s \in {s \in Statuses : ~Ok(s)}}
    \cup {[kind |-> "status", status |-> s, content |-> c, usage |-> u] :
             s \in {s \in Statuses : Ok(s)}, c \in Contents, u \in Usages}
    \cup {[kind |-> "throws", status |-> 0, content |-> NoContent, usage |-> Absent]}

IsSpace(ch) == ch \in {" ", "\n", "\t"}

\* String.prototype.trim
RECURSIVE Trim(_)
Trim(s) ==
    IF Len(s) = 0 THEN s
    ELSE IF IsSpace(s[1]) THEN Trim(Tail(s))
    ELSE IF IsSpace(s[Len(s)]) THEN Trim(SubSeq(s, 1, Len(s) - 1))
    ELSE s

NotFoundAnswer ==
    <<"I couldn't find the comprehensive answer in the full document text.">>

\* The answer taken from the content as it is, without trimming.
ParseAnswerUntrimmed(content) ==
    IF content # NoContent /\ content # <<>> THEN content ELSE NotFoundAnswer

\* responseData.choices?.[0]?.message?.content?.trim() || "I couldn't find ..."
ParseAnswer(content) ==
    IF content # NoContent /\ Trim(content) # <<>> THEN Trim(content) ELSE NotFoundAnswer

\* lastError = `Rate limit hit on ${modelName}.`
RateLimitReason(modelName) == <<"Rate limit hit on ", modelName, ".">>

\* lastError = `Model ${modelName} failed with status ${status}.`
HardFailureReason(modelName, status) ==
    <<"Model ", modelName, " failed with status ", ToString(status), ".">>

\* The control decision of one loop iteration: a hard failure goes on to the
\* next provider instead of stopping.
DecisionContinueOnFailure(status) ==
    IF status = 429 THEN "continue"
    ELSE IF ~Ok(status) THEN "continue"
    ELSE "success"

\* The control decision of one loop iteration: a success does not stop the loop.
DecisionContinueOnSuccess(status) ==
    IF status = 429 THEN "continue"
    ELSE IF ~Ok(status) THEN "break"
    ELSE "successContinue"

\* The control decision of one loop iteration, from the response status.
Decision(status) ==
    IF status = 429 THEN "continue"
    ELSE IF ~Ok(status) THEN "break"
    ELSE "success"

\* The provider tried after a rate limit: the same one again.
SameProvider(i) == i

\* for (const modelName of llmModelNames): the provider tried after `continue`.
NextProvider(i) == i + 1

DefaultFailure == <<"All LLM models failed to return a valid response.">>

\* The failure response built from the default message only.
FailureResponseNoReason(finalText, lastErr) ==
    [status |-> 500, response |-> <<"System Error: ">> \o DefaultFailure,
     message |-> Absent, error |-> Absent,
     usage |-> Absent]

\* NextResponse.json({response: `System Error: ${errorMsg}`}, {status: 500})
FailureResponse(finalText, lastErr) ==
    LET errorMsg == IF Truthy(finalText) THEN finalText
                    ELSE IF Truthy(lastErr) THEN lastErr
                    ELSE DefaultFailure
    IN  [status |-> 500, response |-> <<"System Error: ">> \o errorMsg,
         message |-> Absent, error |-> Absent,
     usage |-> Absent]

\* NextResponse.json({response: finalAiResponseText}, {status: 200, ...})
SuccessResponse(finalText) ==
    [status |-> 200, response |-> finalText, message |-> Absent, error |-> Absent,
     usage |-> Absent]

\* const usage = responseData.usage || null
UsageOf(usage) == IF usage = Absent \/ usage = Null THEN Null ELSE usage

\* NextResponse.json({response: finalAiResponseText, usage: usage}, {status: 200, ...})
SuccessResponseWithUsage(finalText, usage) ==
    [status |-> 200, response |-> finalText, message |-> Absent, error |-> Absent,
     usage |-> UsageOf(usage)]

\* The two copies of the route in the repository.
Handlers == {"part_001", "page.tsx"}

\* NextResponse.json({message: 'Missing paperId or message'}, {status: 400})
BadRequestResponse ==
    [status |-> 400, response |-> Absent,
     message |-> <<"Missing paperId or message">>, error |-> Absent, usage |-> Absent]

\* The catch block: {message: 'Internal Server Error', error: ...}, status 500
InternalErrorResponse ==
    [status |-> 500, response |-> Absent,
     message |-> <<"Internal Server Error">>, error |-> <<"error.message">>,
     usage |-> Absent]

NoResponse == [status |-> 0, response |-> Absent, message |-> Absent, error |-> Absent,
     usage |-> Absent]

(***************************************************************************)
(* POST /api/chat/ask as a state machine; one action per await.            *)
(***************************************************************************)
StoreKinds == {"nullEnd", "absentEnd", "emptyPage"}

SingletonIdle == instancePromise = 0 /\ loads = <<>> /\ callers = <<>>

FormatIdle == fcInput = <<>> /\ fcChunks = <<>> /\ fcResult = <<>> /\ fcpc = "idle"

RequestsIdle == requests = <<>>

EmbedIdle ==
    /\ eChunks = <<>> /\ eIdx = 0 /\ chunkEmbeddings = <<>> /\ ePoints = <<>>
    /\ epc = "idle"

NameIdle == nPaperId = <<>> /\ nIndex = 0 /\ nName = <<>> /\ npc = "idle"

ChatIdle ==
    /\ messages = <<>> /\ inputMessage = <<>> /\ isAiResponding = FALSE
    /\ inFlight = <<>> /\ ignored = <<>>

IngestIdle ==
    /\ tsExists = FALSE /\ tsDocs = {} /\ qExists = FALSE /\ qPoints = {}
    /\ priorPoints = {} /\ listing = <<>> /\ pdfFiles = <<>> /\ fileIdx = 0
    /\ nChunks = 0 /\ pointIdx = 0 /\ qdrantPointsBatch = <<>> /\ upserts = <<>>
    /\ built = <<>> /\ processed = <<>> /\ stages = <<>> /\ setupFailure = "none"
    /\ report = "none" /\ ipc = "idle"

ChunkIdle ==
    /\ text = <<>> /\ size = 1 /\ overlap = 0
    /\ start = 0 /\ chunks = <<>> /\ result = <<>> /\ iters = 0
    /\ cpc = "idle"

InitAsk ==
    /\ stored \in Collections
    /\ storeKind \in StoreKinds
    /\ reqBody \in {"object", "unparseable"}
    /\ reqPaperId \in IF reqBody = "object" THEN {""} \cup Papers ELSE {""}
    /\ reqMessage \in IF reqBody = "object" THEN {"", "q"} ELSE {""}
    /\ pc = "start"
    /\ allChunks = <<>>
    /\ offset = Undefined
    /\ scrolls = <<>>
    /\ context = <<>>
    /\ trying = 1
    /\ finalAiResponseText = <<>>
    /\ success = FALSE
    /\ lastError = Null
    /\ calls = <<>>
    /\ response = NoResponse
    /\ handler \in Handlers
    /\ ChunkIdle
    /\ IngestIdle
    /\ SingletonIdle
    /\ FormatIdle
    /\ RequestsIdle
    /\ EmbedIdle
    /\ NameIdle
    /\ ChatIdle

\* The guard with && in place of ||: only a body without both fields is refused.
MissingBoth(paperId, message) == paperId = "" /\ message = ""

\* if (!paperId || !message)
MissingField(paperId, message) == paperId = "" \/ message = ""

\* const {paperId, message} = await request.json() (a body that is not
\* JSON makes it throw: the catch block); the 400 guard;
\* let allChunks = []; let offset;
ParseRequest ==
    /\ pc = "start"
    /\ IF reqBody = "unparseable"
       THEN /\ response' = InternalErrorResponse
            /\ pc' = "done"
       ELSE IF MissingField(reqPaperId, reqMessage)
            THEN /\ response' = BadRequestResponse
                 /\ pc' = "done"
            ELSE /\ pc' = "scroll"
                 /\ UNCHANGED response
    /\ allChunks' = <<>>
    /\ offset' = Undefined
    /\ UNCHANGED <<handler, stored, storeKind, reqPaperId, reqMessage, reqBody, scrolls, context,
                   trying, finalAiResponseText, success, lastError, calls>>
    /\ UNCHANGED exceptAsk

\* One iteration of while (true): the scroll call, the push, the cursor
\* update and the break test. When the loop breaks, the prompt is built
\* (formatContext sorts and joins) and the fallback loop's variables are set.
ScrollPage ==
    /\ pc = "scroll"
    /\ Len(scrolls) < MaxScrollCalls
    /\ \E page \in ScrollResponses(reqPaperId, offset) :
         LET acc == PushAll(allChunks, page)
             off == page.next_page_offset
         IN  /\ scrolls' = Append(scrolls, [offset |-> offset, page |-> page])
             /\ allChunks' = IF LoopBreaks(off, page.points) THEN SortByIndex(acc) ELSE acc
             /\ offset' = off
             /\ IF LoopBreaks(off, page.points)
                THEN /\ context' = formatContext(acc)
                     /\ pc' = "llm"
                ELSE /\ pc' = "scroll"
                     /\ UNCHANGED context
    /\ trying' = 1
    /\ finalAiResponseText' = <<>>
    /\ success' = FALSE
    /\ lastError' = Null
    /\ UNCHANGED <<handler, stored, storeKind, reqPaperId, reqMessage, reqBody, calls, response>>
    /\ UNCHANGED exceptAsk

\* The scroll call rejects: the catch block answers.
ScrollThrows ==
    /\ pc = "scroll"
    /\ Len(scrolls) < MaxScrollCalls
    /\ scrolls' = Append(scrolls, [offset |-> offset,
                                   page |-> [points |-> <<>>, next_page_offset |-> Undefined]])
    /\ response' = InternalErrorResponse
    /\ pc' = "done"
    /\ UNCHANGED <<handler, stored, storeKind, reqPaperId, reqMessage, reqBody, allChunks, offset,
                   context, trying, finalAiResponseText, success, lastError, calls>>
    /\ UNCHANGED exceptAsk

\* One iteration of for (const modelName of llmModelNames), and, when the
\* loop is left, the code behind it up to the return.
CallProvider ==
    /\ pc = "llm"
    /\ trying <= Len(llmModelNames)
    /\ \E out \in {o \in ProviderOutcomes : o.kind = "status"} :
         LET modelName == llmModelNames[trying]
             d == Decision(out.status)
             answered == d \in {"success", "successContinue"}
             newText == IF answered THEN ParseAnswer(out.content) ELSE finalAiResponseText
             newSuccess == success \/ answered
             newError == IF d = "continue" /\ out.status = 429 THEN RateLimitReason(modelName)
                         ELSE IF ~answered THEN HardFailureReason(modelName, out.status)
                         ELSE lastError
             newTrying == IF d \in {"continue", "successContinue"}
                          THEN NextProvider(trying) ELSE trying
             left == d \in {"break", "success"} \/ newTrying > Len(llmModelNames)
         IN  /\ calls' = Append(calls, [model |-> modelName, kind |-> "status",
                                        status |-> out.status, content |-> out.content,
                                        usage |-> out.usage])
             /\ finalAiResponseText' = newText
             /\ success' = newSuccess
             /\ lastError' = newError
             /\ trying' = newTrying
             /\ IF left
                THEN /\ pc' = "done"
                     /\ response' = IF ~newSuccess THEN FailureResponse(newText, newError)
                                    ELSE IF handler = "page.tsx"
                                    THEN SuccessResponseWithUsage(newText, out.usage)
                                    ELSE SuccessResponse(newText)
                ELSE /\ pc' = "llm"
                     /\ UNCHANGED response
    /\ UNCHANGED <<handler, stored, storeKind, reqPaperId, reqMessage, reqBody, allChunks, offset,
                   scrolls, context>>
    /\ UNCHANGED exceptAsk

\* fetch rejects (network error, timeout): the catch block answers.
ProviderThrows ==
    /\ pc = "llm"
    /\ trying <= Len(llmModelNames)
    /\ calls' = Append(calls, [model |-> llmModelNames[trying], kind |-> "throws",
                               status |-> 0, content |-> NoContent, usage |-> Absent])
    /\ response' = InternalErrorResponse
    /\ pc' = "done"
    /\ UNCHANGED <<handler, stored, storeKind, reqPaperId, reqMessage, reqBody, allChunks, offset,
                   scrolls, context, trying, finalAiResponseText, success, lastError>>
    /\ UNCHANGED exceptAsk

NextAsk == ParseRequest \/ ScrollPage \/ ScrollThrows \/ CallProvider \/ ProviderThrows

Spec == InitAsk /\ [][NextAsk]_vars

(***************************************************************************)
(* chunkText(text, size, overlap), src/scripts/ingest.mjs.                 *)
(***************************************************************************)
Chars == {"a", "b", " "}

\* slice(from, to) losing the last character of the range.
SliceOneShort(s, from, to) ==
    IF to - 1 <= from \/ from >= Len(s) THEN <<>> ELSE SubSeq(s, from + 1, Min(to - 1, Len(s)))

\* String.prototype.slice(from, to) with JavaScript's index clamping.
Slice(s, from, to) ==
    LET n == Len(s)
        f == IF from < 0 THEN (IF n + from < 0 THEN 0 ELSE n + from) ELSE Min(from, n)
        t == IF to < 0 THEN (IF n + to < 0 THEN 0 ELSE n + to) ELSE Min(to, n)
    IN  IF f >= t THEN <<>> ELSE SubSeq(s, f + 1, t)

\* The loop body's update of start without the guard for a non-positive step.
AdvanceUnguarded(st, sz, ov, len) == [start |-> st + sz - ov, brk |-> FALSE]

\* The loop body's update of start ignoring the overlap.
AdvanceNoOverlap(st, sz, ov, len) == [start |-> st + sz, brk |-> FALSE]

\* The loop body behind the push: start += size - overlap and the guard for
\* size - overlap <= 0. brk tells whether the loop is left by `break`.
Advance(st, sz, ov, len) ==
    LET s1 == st + sz - ov
    IN  IF sz - ov <= 0
        THEN IF s1 = 0 /\ len > 0
             THEN [start |-> s1, brk |-> TRUE]
             ELSE [start |-> st + sz, brk |-> FALSE]
        ELSE [start |-> s1, brk |-> FALSE]

\* The filter keeping every non-empty window, whitespace-only ones too.
KeepNonEmpty(chunk) == Len(chunk) > 0

\* chunk && chunk.trim().length > 0
KeepChunk(chunk) == Len(chunk) > 0 /\ Len(Trim(chunk)) > 0

AskIdle ==
    /\ stored = <<>> /\ storeKind = "nullEnd" /\ reqPaperId = "" /\ reqMessage = ""
    /\ reqBody = "object"
    /\ pc = "idle" /\ allChunks = <<>> /\ offset = Undefined /\ scrolls = <<>>
    /\ context = <<>> /\ trying = 1 /\ finalAiResponseText = <<>>
    /\ success = FALSE /\ lastError = Null /\ calls = <<>> /\ response = NoResponse
    /\ handler = "part_001"

InitChunk ==
    /\ text \in SeqsUpTo(Chars, MaxTextLen)
    /\ size \in 1..MaxSize
    /\ overlap \in 0..MaxOverlap
    /\ start = 0
    /\ chunks = <<>>
    /\ result = <<>>
    /\ iters = 0
    /\ cpc = "loop"
    /\ AskIdle
    /\ IngestIdle
    /\ SingletonIdle
    /\ FormatIdle
    /\ RequestsIdle
    /\ EmbedIdle
    /\ NameIdle
    /\ ChatIdle

\* One iteration of while (start < text.length).
ChunkIterate ==
    /\ cpc = "loop"
    /\ start < Len(text)
    /\ LET end == start + size
           adv == Advance(start, size, overlap, Len(text))
       IN  /\ chunks' = Append(chunks, Slice(text, start, end))
           /\ start' = adv.start
           /\ cpc' = IF adv.brk THEN "filter" ELSE "loop"
    /\ iters' = iters + 1
    /\ UNCHANGED <<text, size, overlap, result>>
    /\ UNCHANGED exceptChunk

\* The loop is over (condition false, or break): filter and return.
ChunkReturn ==
    /\ cpc = "filter" \/ (cpc = "loop" /\ ~(start < Len(text)))
    /\ result' = SelectSeq(chunks, KeepChunk)
    /\ cpc' = "done"
    /\ UNCHANGED <<text, size, overlap, start, chunks, iters>>
    /\ UNCHANGED exceptChunk

NextChunk == ChunkIterate \/ ChunkReturn

SpecChunk == InitChunk /\ [][NextChunk]_vars

(***************************************************************************)
(* ingestData(), src/scripts/ingest.mjs.                                   *)
(***************************************************************************)
\* Directory entries: a file name is its stem (characters) and its extension.
Entry(stem, ext) == [stem |-> stem, ext |-> ext]

\* The directories the run may find.
Listings ==
    { <<Entry(<<"n">>, ".txt")>>,
      <<Entry(<<"a">>, ".pdf")>>,
      <<Entry(<<"a">>, ".pdf"), Entry(<<"b">>, ".pdf")>>,
      <<Entry(<<"a">>, ".pdf"), Entry(<<"n">>, ".txt"), Entry(<<"b">>, ".PDF")>> }

\* String.prototype.toLowerCase on an extension.
ToLowerCase(ext) == IF ext = ".PDF" THEN ".pdf" ELSE ext

\* pdfFiles.filter(file => path.extname(file).toLowerCase() === '.pdf')
IsPdf(entry) == ToLowerCase(entry.ext) = ".pdf"

\* path.basename(pdfFile, '.pdf'): the suffix is removed only when it matches.
PaperIdOf(entry) == IF entry.ext = ".pdf" THEN entry.stem ELSE entry.stem \o <<entry.ext>>

\* `${i}`: the decimal digits of a chunk index, without leading zeros.
RECURSIVE Decimal(_)
Decimal(i) ==
    IF i < 10 THEN <<Digit[i + 1]>>
    ELSE Decimal(i \div 10) \o <<Digit[(i % 10) + 1]>>

\* The name without the separator between the id and the index.
PointNameNoSeparator(paperId, i) == paperId \o Decimal(i)

\* The name hashed into the point id: `${paperId}_${i}`
PointName(paperId, i) == paperId \o <<"_">> \o Decimal(i)

\* A point id that also depends on how many upsert calls were made so far.
PointIdByAttempt(paperId, i) == <<"uuidv5", ToString(Len(upserts))>> \o PointName(paperId, i)

\* uuidv5(`${paperId}_${i}`, QDRANT_UUID_NAMESPACE): a fixed function of the name.
PointId(paperId, i) == <<"uuidv5">> \o PointName(paperId, i)

\* The text of chunk i of a document.
DocChunkText(paperId, i) == paperId \o <<"#", Digit[i + 1]>>

\* The point of a chunk numbered from 1.
BuildPointOneBased(paperId, i) ==
    [id |-> PointId(paperId, i), paperId |-> paperId,
     chunkText |-> DocChunkText(paperId, i), chunkIndex |-> i + 1]

\* {id: chunkId, vector: ..., payload: {paperId, chunkText: chunks[i], chunkIndex: i}}
BuildPoint(paperId, i) ==
    [id |-> PointId(paperId, i), paperId |-> paperId,
     chunkText |-> DocChunkText(paperId, i), chunkIndex |-> i]

\* qdrantClient.upsert: a point replaces the stored point with the same id.
Upsert(points, batch) ==
    {old \in points : \A k \in 1..Len(batch) : batch[k].id # old.id} \cup Range(batch)

\* The buffer after an upsert call: cleared whatever the outcome.
BatchAfterFlushAlwaysCleared(batch, outcome) == <<>>

\* The buffer after the upsert call of the point loop:
\* qdrantPointsBatch = [] inside the try, nothing in the catch.
BatchAfterFlush(batch, outcome) == IF outcome = "ok" THEN <<>> ELSE batch

\* What an upsert call can do: succeed, fail, or fail after the store
\* applied the write (the answer was lost).
UpsertOutcomes == {"ok", "failed", "failedApplied"}

\* The points an earlier run may have left in the collection.
EarlierRuns ==
    { {},
      {BuildPoint(<<"a">>, 0), BuildPoint(<<"a">>, 1), BuildPoint(<<"b">>, 0)},
      {BuildPoint(<<"a">>, 0), BuildPoint(<<"z">>, 0)} }

InitIngest ==
    /\ upserts = <<>>
    /\ priorPoints \in EarlierRuns
    /\ qPoints = priorPoints
    /\ qExists = (priorPoints # {})
    /\ tsDocs = {pt.paperId : pt \in priorPoints}
    /\ tsExists = (priorPoints # {})
    /\ listing \in Listings
    /\ pdfFiles = <<>>
    /\ fileIdx = 0
    /\ nChunks = 0
    /\ pointIdx = 0
    /\ qdrantPointsBatch = <<>>
    /\ built = <<>>
    /\ processed = <<>>
    /\ stages = <<>>
    /\ setupFailure = "none"
    /\ report = "none"
    /\ ipc = "tsDelete"
    /\ AskIdle
    /\ ChunkIdle
    /\ SingletonIdle
    /\ FormatIdle
    /\ RequestsIdle
    /\ EmbedIdle
    /\ NameIdle
    /\ ChatIdle

\* A setup step's catch that logs the error and goes on without returning.
LogSetupErrorAndGoOn(step) ==
    /\ setupFailure' = step
    /\ report' = "error"
    /\ ipc' = "loadModel"

\* console.error(...); return;  in a setup step
AbortSetup(step) ==
    /\ setupFailure' = step
    /\ report' = "error"
    /\ ipc' = "returned"

\* typesenseClient.collections(name).delete() with its inner try/catch:
\* every error is caught there (one other than 404 is only warned about).
\* An error other than 404 may leave the collection, or may have removed it.
TsDelete ==
    /\ ipc = "tsDelete"
    /\ \E outcome \in {"ok", "error", "errorApplied"} :
         /\ IF (outcome = "ok" /\ tsExists) \/ outcome = "errorApplied"
            THEN tsExists' = FALSE /\ tsDocs' = {}
            ELSE UNCHANGED <<tsExists, tsDocs>>
         /\ setupFailure' = IF outcome = "ok" THEN "none" ELSE "tsDeleteError"
         /\ ipc' = "tsCreate"
    /\ UNCHANGED <<qExists, qPoints, priorPoints, listing, pdfFiles, fileIdx, nChunks,
                   pointIdx, qdrantPointsBatch, upserts, built, processed, report, stages>>
    /\ UNCHANGED exceptIngest

\* typesenseClient.collections().create(schema): fails when the collection
\* exists, and may fail otherwise; the outer catch returns.
TsCreate ==
    /\ ipc = "tsCreate"
    /\ \E outcome \in {"ok", "error"} :
         IF outcome = "ok" /\ ~tsExists
         THEN /\ tsExists' = TRUE
              /\ tsDocs' = {}
              /\ ipc' = "qGet"
              /\ UNCHANGED <<setupFailure, report>>
         ELSE /\ AbortSetup("tsCreate")
              /\ UNCHANGED <<tsExists, tsDocs>>
    /\ UNCHANGED <<qExists, qPoints, priorPoints, listing, pdfFiles, fileIdx, nChunks,
                   pointIdx, qdrantPointsBatch, upserts, built, processed, stages>>
    /\ UNCHANGED exceptIngest

\* The step taken when getCollection finds the collection: it is left as it is.
AfterQdrantFoundKeep == "qIndex"

\* The step taken when getCollection finds the collection.
AfterQdrantFound == "qDelete"

\* qdrantClient.getCollection(name): resolves when the collection exists,
\* 404 when it does not; any other error is rethrown and the run returns.
QGet ==
    /\ ipc = "qGet"
    /\ \E outcome \in {"answer", "error"} :
         IF outcome = "answer"
         THEN /\ ipc' = IF qExists THEN AfterQdrantFound ELSE "qCreate"
              /\ UNCHANGED <<setupFailure, report>>
         ELSE AbortSetup("qGet")
    /\ UNCHANGED <<tsExists, tsDocs, qExists, qPoints, priorPoints, listing, pdfFiles,
                   fileIdx, nChunks, pointIdx, qdrantPointsBatch, upserts, built, processed, stages>>
    /\ UNCHANGED exceptIngest

\* qdrantClient.deleteCollection(name); an error is rethrown and the run returns.
QDelete ==
    /\ ipc = "qDelete"
    /\ \E outcome \in {"ok", "error"} :
         IF outcome = "ok"
         THEN /\ qExists' = FALSE
              /\ qPoints' = {}
              /\ ipc' = "qCreate"
              /\ UNCHANGED <<setupFailure, report>>
         ELSE /\ AbortSetup("qDelete")
              /\ UNCHANGED <<qExists, qPoints>>
    /\ UNCHANGED <<tsExists, tsDocs, priorPoints, listing, pdfFiles, fileIdx, nChunks,
                   pointIdx, qdrantPointsBatch, upserts, built, processed, stages>>
    /\ UNCHANGED exceptIngest

\* qdrantClient.createCollection(name, {vectors: {size: 384, distance: 'Cosine'}})
QCreate ==
    /\ ipc = "qCreate"
    /\ \E outcome \in {"ok", "error"} :
         IF outcome = "ok" /\ ~qExists
         THEN /\ qExists' = TRUE
              /\ qPoints' = {}
              /\ ipc' = "qIndex"
              /\ UNCHANGED <<setupFailure, report>>
         ELSE /\ AbortSetup("qCreate")
              /\ UNCHANGED <<qExists, qPoints>>
    /\ UNCHANGED <<tsExists, tsDocs, priorPoints, listing, pdfFiles, fileIdx, nChunks,
                   pointIdx, qdrantPointsBatch, upserts, built, processed, stages>>
    /\ UNCHANGED exceptIngest

\* qdrantClient.createPayloadIndex(name, {field_name: "paperId", ...})
QIndex ==
    /\ ipc = "qIndex"
    /\ \E outcome \in {"ok", "error"} :
         IF outcome = "ok"
         THEN /\ ipc' = "loadModel"
              /\ UNCHANGED <<setupFailure, report>>
         ELSE AbortSetup("qIndex")
    /\ UNCHANGED <<tsExists, tsDocs, qExists, qPoints, priorPoints, listing, pdfFiles,
                   fileIdx, nChunks, pointIdx, qdrantPointsBatch, upserts, built, processed, stages>>
    /\ UNCHANGED exceptIngest

\* embedder = await pipeline('feature-extraction', ...)
LoadModel ==
    /\ ipc = "loadModel"
    /\ \E outcome \in {"ok", "error"} :
         IF outcome = "ok"
         THEN /\ ipc' = "readdir"
              /\ UNCHANGED report
         ELSE /\ report' = "error"
              /\ ipc' = "returned"
    /\ UNCHANGED <<tsExists, tsDocs, qExists, qPoints, priorPoints, listing, pdfFiles,
                   fileIdx, nChunks, pointIdx, qdrantPointsBatch, upserts, built,
                   processed, setupFailure, stages>>
    /\ UNCHANGED exceptIngest

\* fs.readdir, the extension filter, the empty-directory check, and
\* let qdrantPointsBatch = [].
ReadDir ==
    /\ ipc = "readdir"
    /\ \E outcome \in {"ok", "error"} :
         LET kept == SelectSeq(listing, IsPdf)
         IN  IF outcome = "ok" /\ Len(kept) > 0
             THEN /\ pdfFiles' = kept
                  /\ fileIdx' = 1
                  /\ ipc' = "metadata"
                  /\ UNCHANGED report
             ELSE /\ pdfFiles' = IF outcome = "ok" THEN kept ELSE pdfFiles
                  /\ report' = "error"
                  /\ ipc' = "returned"
                  /\ UNCHANGED fileIdx
    /\ qdrantPointsBatch' = <<>>
    /\ UNCHANGED <<tsExists, tsDocs, qExists, qPoints, priorPoints, listing, nChunks,
                   pointIdx, upserts, built, processed, setupFailure, stages>>
    /\ UNCHANGED exceptIngest

paperId == PaperIdOf(pdfFiles[fileIdx])

\* The end of one iteration of for (const pdfFile of pdfFiles): `continue`,
\* or the end of the body. After the last file the final flush follows.
EndDocument(how) ==
    /\ processed' = Append(processed, [paperId |-> paperId, how |-> how])
    /\ fileIdx' = fileIdx + 1
    /\ ipc' = IF fileIdx < Len(pdfFiles) THEN "metadata" ELSE "final"

\* The stages of one document, in the order of the loop body.
StageNames == <<"metadata", "extract", "chunk", "embed", "point">>

Stage(name, ok) == [paperId |-> paperId, stage |-> name, ok |-> ok]

\* The catch of the metadata upsert going on to extraction instead of `continue`.
MetadataFailedGoOn ==
    /\ ipc' = "extract"
    /\ UNCHANGED <<processed, fileIdx>>

\* The catch of the metadata upsert: console.error(...); continue;
MetadataFailed == EndDocument("metadataFailed")

\* 4a. documents().upsert(metadata) in its try/catch.
UpsertMetadata ==
    /\ ipc = "metadata"
    /\ \E outcome \in {"ok", "error"} :
         IF outcome = "ok"
         THEN /\ tsDocs' = tsDocs \cup {paperId}
              /\ stages' = Append(stages, Stage("metadata", TRUE))
              /\ ipc' = "extract"
              /\ UNCHANGED <<processed, fileIdx>>
         ELSE /\ MetadataFailed
              /\ stages' = Append(stages, Stage("metadata", FALSE))
              /\ UNCHANGED tsDocs
    /\ UNCHANGED <<tsExists, qExists, qPoints, priorPoints, listing, pdfFiles, nChunks,
                   pointIdx, qdrantPointsBatch, upserts, built, setupFailure, report>>
    /\ UNCHANGED exceptIngest

\* 4b. const text = await extractTextFromPDF(filePath) (no try/catch around
\* it), the !text check, chunkText and the chunks.length === 0 check.
\* A rejection leaves ingestData and reaches ingestData().catch(...).
ExtractAndChunk ==
    /\ ipc = "extract"
    /\ \E outcome \in {"rejects", "emptyText", "text"}, n \in 0..MaxDocChunks :
         /\ outcome # "text" => n = 0
         /\ IF outcome = "rejects"
            THEN /\ processed' = Append(processed, [paperId |-> paperId, how |-> "extractRejected"])
                 /\ stages' = Append(stages, Stage("extract", FALSE))
                 /\ report' = "unexpected error"
                 /\ ipc' = "crashed"
                 /\ UNCHANGED <<fileIdx, nChunks>>
            ELSE IF outcome = "emptyText"
            THEN /\ EndDocument("noText")
                 /\ stages' = Append(stages, Stage("extract", FALSE))
                 /\ UNCHANGED <<report, nChunks>>
            ELSE IF n = 0
            THEN /\ EndDocument("noChunks")
                 /\ stages' = stages \o <<Stage("extract", TRUE), Stage("chunk", FALSE)>>
                 /\ UNCHANGED <<report, nChunks>>
            ELSE /\ nChunks' = n
                 /\ stages' = stages \o <<Stage("extract", TRUE), Stage("chunk", TRUE)>>
                 /\ ipc' = "embed"
                 /\ UNCHANGED <<report, processed, fileIdx>>
    /\ UNCHANGED <<tsExists, tsDocs, qExists, qPoints, priorPoints, listing, pdfFiles,
                   pointIdx, qdrantPointsBatch, upserts, built, setupFailure>>
    /\ UNCHANGED exceptIngest

\* The embedding loop in its try/catch.
Embed ==
    /\ ipc = "embed"
    /\ \E outcome \in {"ok", "error"} :
         IF outcome = "ok"
         THEN /\ pointIdx' = 0
              /\ stages' = Append(stages, Stage("embed", TRUE))
              /\ ipc' = "points"
              /\ UNCHANGED <<processed, fileIdx>>
         ELSE /\ EndDocument("embeddingFailed")
              /\ stages' = Append(stages, Stage("embed", FALSE))
              /\ UNCHANGED pointIdx
    /\ UNCHANGED <<tsExists, tsDocs, qExists, qPoints, priorPoints, listing, pdfFiles,
                   nChunks, qdrantPointsBatch, upserts, built, setupFailure, report>>
    /\ UNCHANGED exceptIngest

\* if (qdrantPointsBatch.length >= qdrantBatchSize)
BatchFull(batch) == Len(batch) >= BatchSize

\* One iteration of the point loop up to the upsert call: build the point,
\* push it, test the buffer.
PushPoint ==
    /\ ipc = "points"
    /\ pointIdx < nChunks
    /\ LET pt == BuildPoint(paperId, pointIdx)
           batch == Append(qdrantPointsBatch, pt)
       IN  /\ qdrantPointsBatch' = batch
           /\ built' = Append(built, pt)
           /\ stages' = Append(stages, Stage("point", TRUE))
           /\ IF BatchFull(batch)
              THEN /\ ipc' = "flush"
                   /\ UNCHANGED <<pointIdx, processed, fileIdx>>
              ELSE IF pointIdx + 1 < nChunks
              THEN /\ pointIdx' = pointIdx + 1
                   /\ UNCHANGED <<ipc, processed, fileIdx>>
              ELSE /\ pointIdx' = pointIdx + 1
                   /\ EndDocument("persisted")
    /\ UNCHANGED <<tsExists, tsDocs, qExists, qPoints, priorPoints, listing, pdfFiles,
                   nChunks, upserts, setupFailure, report>>
    /\ UNCHANGED exceptIngest

\* The upsert call of the point loop in its try/catch, and i++.
FlushBatch ==
    /\ ipc = "flush"
    /\ \E outcome \in UpsertOutcomes :
         /\ upserts' = Append(upserts, [points |-> qdrantPointsBatch, outcome |-> outcome,
                                        final |-> FALSE])
         /\ qPoints' = IF outcome \in {"ok", "failedApplied"}
                        THEN Upsert(qPoints, qdrantPointsBatch) ELSE qPoints
         /\ qdrantPointsBatch' = BatchAfterFlush(qdrantPointsBatch, outcome)
    /\ pointIdx' = pointIdx + 1
    /\ IF pointIdx + 1 < nChunks
       THEN /\ ipc' = "points"
            /\ UNCHANGED <<processed, fileIdx>>
       ELSE EndDocument("persisted")
    /\ UNCHANGED <<tsExists, tsDocs, qExists, priorPoints, listing, pdfFiles, nChunks,
                   built, setupFailure, report, stages>>
    /\ UNCHANGED exceptIngest

\* Send final batch (the buffer is not reset afterwards), and the
\* 'Ingestion process completed successfully!' line.
FinalFlush ==
    /\ ipc = "final"
    /\ IF Len(qdrantPointsBatch) > 0
       THEN \E outcome \in UpsertOutcomes :
              /\ upserts' = Append(upserts, [points |-> qdrantPointsBatch,
                                             outcome |-> outcome, final |-> TRUE])
              /\ qPoints' = IF outcome \in {"ok", "failedApplied"}
                             THEN Upsert(qPoints, qdrantPointsBatch) ELSE qPoints
       ELSE UNCHANGED <<upserts, qPoints>>
    /\ report' = "completed successfully"
    /\ ipc' = "done"
    /\ UNCHANGED <<tsExists, tsDocs, qExists, priorPoints, listing, pdfFiles, fileIdx,
                   nChunks, pointIdx, qdrantPointsBatch, built, processed, setupFailure, stages>>
    /\ UNCHANGED exceptIngest

NextIngest ==
    \/ TsDelete \/ TsCreate \/ QGet \/ QDelete \/ QCreate \/ QIndex
    \/ LoadModel \/ ReadDir
    \/ UpsertMetadata \/ ExtractAndChunk \/ Embed \/ PushPoint \/ FlushBatch \/ FinalFlush

SpecIngest == InitIngest /\ [][NextIngest]_vars

(***************************************************************************)
(* EmbeddingPipelineSingleton.getInstance, src/unnamed/part_001.           *)
(* Callers run on one event loop: the code between two awaits is one step. *)
(***************************************************************************)
MaxCallers == 3        \* getInstance: concurrent callers
MaxLoads == 2          \* getInstance: loads started in one run of the process

\* The field left as it was while the load runs (assigned only after the await).
InstanceLeftUnset(field, load) == field

\* this.instancePromise = pipeline(task, model, {...})
InstanceAfterStart(field, load) == load

InitSingleton ==
    /\ instancePromise = 0
    /\ loads = <<>>
    /\ callers = [c \in 1..MaxCallers |->
                     [pc |-> "idle", got |-> 0, started |-> FALSE, during |-> 0,
                      handed |-> "none", caught |-> {}]]
    /\ AskIdle
    /\ ChunkIdle
    /\ IngestIdle
    /\ FormatIdle
    /\ RequestsIdle
    /\ EmbedIdle
    /\ NameIdle
    /\ ChatIdle

\* The field behind the catch block when the assignment of null is left out.
InstanceKeptAfterFailure(field) == field

\* catch (error) { this.instancePromise = null; throw error; }
InstanceAfterFailure(field) == 0

\* The failed loads whose catch block has run.
Caught == UNION {callers[c].caught : c \in 1..Len(callers)}

\* The loads that have not settled.
Pending == {i \in 1..Len(loads) : loads[i] = "pending"}

\* A call of getInstance up to its first await or its return:
\* if (!this.instancePromise) { this.instancePromise = pipeline(...); await ... }
\* return this.instancePromise;
\* (`handed` records the state, at the call, of the load whose promise is
\* returned: "pending", "resolved", "rejected" (the catch block of the caller
\* that started it has not run yet) or "caught".)
GetInstance(c) ==
    /\ callers[c].pc \in {"idle", "returned", "threw"}
    /\ LET during == IF Pending = {} THEN 0 ELSE CHOOSE i \in Pending : TRUE
       IN  IF instancePromise = 0
           THEN /\ Len(loads) < MaxLoads
                /\ loads' = Append(loads, "pending")
                /\ instancePromise' = InstanceAfterStart(instancePromise, Len(loads) + 1)
                /\ callers' = [callers EXCEPT ![c] =
                                  [pc |-> "awaiting", got |-> Len(loads) + 1,
                                   started |-> TRUE, during |-> during,
                                   handed |-> "none", caught |-> callers[c].caught]]
           ELSE /\ callers' = [callers EXCEPT ![c] =
                                  [pc |-> "returned", got |-> instancePromise,
                                   started |-> FALSE, during |-> during,
                                   handed |-> IF instancePromise \in Caught THEN "caught"
                                              ELSE loads[instancePromise],
                                   caught |-> callers[c].caught]]
                /\ UNCHANGED <<instancePromise, loads>>
    /\ UNCHANGED exceptSingleton

\* The promise returned by pipeline(...) settles.
LoadSettles(i) ==
    /\ i \in Pending
    /\ \E outcome \in {"resolved", "rejected"} : loads' = [loads EXCEPT ![i] = outcome]
    /\ UNCHANGED <<instancePromise, callers>>
    /\ UNCHANGED exceptSingleton

\* The caller that started the load continues behind `await this.instancePromise`:
\* return this.instancePromise, or the catch: this.instancePromise = null; throw.
Resume(c) ==
    /\ callers[c].pc = "awaiting"
    /\ loads[callers[c].got] # "pending"
    /\ IF loads[callers[c].got] = "resolved"
       THEN /\ callers' = [callers EXCEPT ![c].pc = "returned", ![c].got = instancePromise]
            /\ UNCHANGED instancePromise
       ELSE /\ callers' = [callers EXCEPT ![c].pc = "threw",
                                        ![c].caught = @ \cup {callers[c].got}]
            /\ instancePromise' = InstanceAfterFailure(instancePromise)
    /\ UNCHANGED loads
    /\ UNCHANGED exceptSingleton

NextSingleton ==
    \/ \E c \in 1..MaxCallers : GetInstance(c)
    \/ \E i \in 1..MaxLoads : LoadSettles(i)
    \/ \E c \in 1..MaxCallers : Resume(c)

SpecSingleton == InitSingleton /\ [][NextSingleton]_vars

(***************************************************************************)
(* formatContext(chunks) on lists that hold points without a chunkIndex.   *)
(***************************************************************************)
MaxFormatChunks == 3   \* formatContext: longest list of chunks

\* A point whose payload has no chunkIndex.
IndexlessPoint(p, mark) == [paperId |-> p, chunkText |-> <<p, "#", mark>>]

\* A point whose payload has no chunkText.
TextlessPoint(p, i) == [paperId |-> p, chunkIndex |-> i]

\* A point whose payload has the empty chunkText.
EmptyTextPoint(p, i) == [paperId |-> p, chunkIndex |-> i, chunkText |-> <<>>]

\* The points a list handed to formatContext is made of.
FormatUniverse ==
    {Point("p1", i) : i \in 0..MaxChunkIndex}
    \cup {IndexlessPoint("p1", "x"), IndexlessPoint("p1", "y")}
    \cup {TextlessPoint("p1", 0), EmptyTextPoint("p1", 1)}

InitFormat ==
    /\ fcInput \in SeqsUpTo(FormatUniverse, MaxFormatChunks)
    /\ fcChunks = fcInput
    /\ fcResult = <<>>
    /\ fcpc = "call"
    /\ AskIdle
    /\ ChunkIdle
    /\ IngestIdle
    /\ SingletonIdle
    /\ RequestsIdle
    /\ EmbedIdle
    /\ NameIdle
    /\ ChatIdle

\* The call: the guard for an empty list, the sort in place, map and join.
FormatContext ==
    /\ fcpc = "call"
    /\ fcChunks' = IF Len(fcChunks) = 0 THEN fcChunks ELSE SortByIndex(fcChunks)
    /\ fcResult' = formatContext(fcChunks)
    /\ fcpc' = "done"
    /\ UNCHANGED fcInput
    /\ UNCHANGED exceptFormat

NextFormat == FormatContext

SpecFormat == InitFormat /\ [][NextFormat]_vars

(***************************************************************************)
(* Concurrent requests to POST /api/chat/ask: the retrieval loop of        *)
(* several invocations interleaved at their awaits, over one collection.   *)
(***************************************************************************)
MaxRequests == 2       \* requests in flight together
MaxAttempts == 2       \* invocations of one client (first try and retries)

\* The collection the requests read: three chunks of p1 around one of p2.
SharedStore == <<Point("p1", 0), Point("p2", 0), Point("p1", 1), Point("p1", 2)>>

\* The locals of an invocation taken over from the invocation before it.
LocalsKept(before) == before

\* let allChunks = []; let offset;
LocalsAtStart(before) == [allChunks |-> <<>>, offset |-> Undefined]

InitRequests ==
    /\ stored = SharedStore
    /\ storeKind \in StoreKinds
    /\ requests \in [1..MaxRequests ->
                        {[paperId |-> p, pc |-> "start", allChunks |-> <<>>,
                          offset |-> Undefined, sent |-> <<>>, fetched |-> <<>>,
                          attempt |-> 0] : p \in Papers}]
    /\ reqPaperId = "" /\ reqMessage = "" /\ reqBody = "object"
    /\ pc = "idle" /\ allChunks = <<>>
    /\ offset = Undefined /\ scrolls = <<>> /\ context = <<>> /\ trying = 1
    /\ finalAiResponseText = <<>> /\ success = FALSE /\ lastError = Null
    /\ calls = <<>> /\ response = NoResponse /\ handler = "part_001"
    /\ ChunkIdle
    /\ IngestIdle
    /\ SingletonIdle
    /\ FormatIdle
    /\ EmbedIdle
    /\ NameIdle
    /\ ChatIdle

\* An invocation starts: the first one of a client, or its retry after an
\* aborted one. sent and fetched are the history of this invocation.
StartRequest(r) ==
    /\ requests[r].pc \in {"start", "aborted"}
    /\ requests[r].attempt < MaxAttempts
    /\ LET locals == LocalsAtStart([allChunks |-> requests[r].allChunks,
                                    offset |-> requests[r].offset])
       IN  requests' = [requests EXCEPT ![r] =
                           [paperId |-> requests[r].paperId, pc |-> "scroll",
                            allChunks |-> locals.allChunks, offset |-> locals.offset,
                            sent |-> <<>>, fetched |-> <<>>,
                            attempt |-> requests[r].attempt + 1]]
    /\ UNCHANGED exceptRequests

\* One iteration of while (true) of invocation r.
RequestScrolls(r) ==
    /\ requests[r].pc = "scroll"
    /\ Len(requests[r].sent) < MaxScrollCalls
    /\ \E page \in ScrollResponses(requests[r].paperId, requests[r].offset) :
         requests' = [requests EXCEPT
             ![r].sent = Append(@, requests[r].offset),
             ![r].fetched = @ \o page.points,
             ![r].allChunks = PushAll(@, page),
             ![r].offset = page.next_page_offset,
             ![r].pc = IF LoopBreaks(page.next_page_offset, page.points)
                       THEN "done" ELSE "scroll"]
    /\ UNCHANGED exceptRequests

\* The invocation ends before the loop is over: the scroll call rejects or
\* the caller goes away.
RequestAborts(r) ==
    /\ requests[r].pc = "scroll"
    /\ requests' = [requests EXCEPT ![r].pc = "aborted"]
    /\ UNCHANGED exceptRequests

NextRequests ==
    \E r \in 1..MaxRequests : StartRequest(r) \/ RequestScrolls(r) \/ RequestAborts(r)

SpecRequests == InitRequests /\ [][NextRequests]_vars

(***************************************************************************)
(* Ingestion followed by a question: ingestData() runs, then POST          *)
(* /api/chat/ask reads the collection the run has left.                    *)
(***************************************************************************)
RECURSIVE SeqOf(_)
SeqOf(S) == IF S = {} THEN <<>>
            ELSE LET x == CHOOSE y \in S : TRUE IN <<x>> \o SeqOf(S \ {x})

Reverse(s) == [k \in 1..Len(s) |-> s[Len(s) + 1 - k]]

\* The elements at the even positions followed by those at the odd ones.
EvenThenOdd(s) ==
    SelectSeq([k \in 1..Len(s) |-> IF k % 2 = 0 THEN <<s[k]>> ELSE <<>>],
              LAMBDA e : e # <<>>)
    \o SelectSeq([k \in 1..Len(s) |-> IF k % 2 = 1 THEN <<s[k]>> ELSE <<>>],
                 LAMBDA e : e # <<>>)

\* Orders in which the store may scan its points (it scans by point id, a
\* hash: any order with respect to the chunk indices).
ScanOrders(points) ==
    LET s == SeqOf(points)
        mixed == EvenThenOdd(s)
    IN  {s, Reverse(s), [k \in 1..Len(mixed) |-> mixed[k][1]]}

\* The document ids of the run.
IngestedIds == {PaperIdOf(pdfFiles[k]) : k \in 1..Len(pdfFiles)}

InitEndToEnd == InitIngest

\* A question about a document of the run arrives once the run is over: the
\* body has both fields, so the handler gets to the loop with
\* let allChunks = []; let offset;
AskAfterIngest ==
    /\ ipc = "done"
    /\ pc = "idle"
    /\ stored' \in ScanOrders(qPoints)
    /\ storeKind' = "nullEnd"
    /\ reqPaperId' \in IngestedIds
    /\ reqMessage' = "q"
    /\ pc' = "scroll"
    /\ allChunks' = <<>>
    /\ offset' = Undefined
    /\ UNCHANGED <<reqBody, scrolls, context, trying, finalAiResponseText, success,
                   lastError, calls, response, handler>>
    /\ UNCHANGED exceptAsk

NextEndToEnd == NextIngest \/ AskAfterIngest \/ ScrollPage

SpecEndToEnd == InitEndToEnd /\ [][NextEndToEnd]_vars

(***************************************************************************)
(* The embedding loop and the point loop of one document,                  *)
(* src/scripts/ingest.mjs.                                                 *)
(***************************************************************************)
EmbeddingBatchSize == 2   \* embeddingBatchSize (32 in the source, scaled)
MaxEmbedChunks == 5       \* most chunks of the document

\* The texts the chunks are made of.
ChunkTexts == {<<"t1">>, <<"t2">>}

\* The row of the tensor the embedder returns for a text (mean pooled,
\* normalized): a function of the text.
VectorOf(chunk) == <<"vector of">> \o chunk

\* The next sub-batch starting at the last chunk of this one.
NextBatchStartOverlapping(i) == i + EmbeddingBatchSize - 1

\* i += embeddingBatchSize
NextBatchStart(i) == i + EmbeddingBatchSize

InitEmbed ==
    /\ eChunks \in SeqsUpTo(ChunkTexts, MaxEmbedChunks) \ {<<>>}
    /\ eIdx = 0
    /\ chunkEmbeddings = <<>>
    /\ ePoints = <<>>
    /\ epc = "embed"
    /\ AskIdle
    /\ ChunkIdle
    /\ IngestIdle
    /\ SingletonIdle
    /\ FormatIdle
    /\ RequestsIdle
    /\ NameIdle
    /\ ChatIdle

\* One iteration of the embedding loop: slice, await embedder(batchChunks),
\* push the rows. An error is caught behind the loop: `continue`.
EmbedSubBatch ==
    /\ epc = "embed"
    /\ eIdx < Len(eChunks)
    /\ \E outcome \in {"ok", "error"} :
         IF outcome = "ok"
         THEN LET batchChunks == Slice(eChunks, eIdx, eIdx + EmbeddingBatchSize)
                  rows == [k \in 1..Len(batchChunks) |-> VectorOf(batchChunks[k])]
              IN  /\ chunkEmbeddings' = chunkEmbeddings \o rows
                  /\ eIdx' = NextBatchStart(eIdx)
                  /\ epc' = IF NextBatchStart(eIdx) < Len(eChunks) THEN "embed" ELSE "points"
         ELSE /\ epc' = "skipped"
              /\ UNCHANGED <<chunkEmbeddings, eIdx>>
    /\ UNCHANGED <<eChunks, ePoints>>
    /\ UNCHANGED exceptEmbed

\* chunkEmbeddings[i]: undefined behind the end of the array.
VectorAt(i) == IF i + 1 <= Len(chunkEmbeddings) THEN chunkEmbeddings[i + 1] ELSE Absent

\* The point loop: one point per chunk, with vector chunkEmbeddings[i].
BuildPoints ==
    /\ epc = "points"
    /\ ePoints' = [k \in 1..Len(eChunks) |->
                      [chunkIndex |-> k - 1, chunkText |-> eChunks[k],
                       vector |-> VectorAt(k - 1)]]
    /\ epc' = "done"
    /\ UNCHANGED <<eChunks, eIdx, chunkEmbeddings>>
    /\ UNCHANGED exceptEmbed

NextEmbed == EmbedSubBatch \/ BuildPoints

SpecEmbed == InitEmbed /\ [][NextEmbed]_vars

(***************************************************************************)
(* The chat of the paper page: handleChatSubmit,                           *)
(* src/app/paper/[paperId]/page.tsx (the same handler stands in            *)
(* src/app/register/page.tsx).                                             *)
(***************************************************************************)
MaxSubmissions == 2    \* accepted submissions
MaxIgnored == 2        \* submissions that return at the guard

\* What the input box may hold.
Inputs == {<<>>, <<" ">>, <<"q">>}

\* What `await fetch('/api/chat/ask', ...)` gives: a response of the route,
\* or a rejection (the network failed).
FetchRejected ==
    [status |-> 0, response |-> Absent, message |-> Absent,
     error |-> <<"Failed to fetch">>, usage |-> Absent]

FetchResults ==
    {SuccessResponse(<<"X">>), FailureResponse(<<>>, Null), InternalErrorResponse,
     FetchRejected}

\* `System Error: Failed to get response. Details: ${e.message}`
SystemErrorText(details) == <<"System Error: Failed to get response. Details: ">> \o details

\* The text of the AI message for a settled fetch: the try block's
\* responseData.response || "Sorry, ...", or the catch block's text with
\* the message of the error thrown (errorData.error || `API request failed
\* with status ${response.status}` for a response that is not ok).
AiText(res) ==
    IF res.status = 0 THEN SystemErrorText(res.error)
    ELSE IF ~Ok(res.status)
         THEN SystemErrorText(IF res.error # Absent /\ res.error # <<>>
                              THEN res.error
                              ELSE <<"API request failed with status ", ToString(res.status)>>)
    ELSE IF res.response # Absent /\ res.response # <<>>
         THEN res.response
         ELSE <<"Sorry, I couldn't generate a response.">>

\* isAiResponding when the reset stands at the end of the try block
\* instead of in a finally block.
RespondingAfterWithoutFinally(res) == res.status = 0 \/ ~Ok(res.status)

\* finally { setIsAiResponding(false); }
RespondingAfter(res) == FALSE

\* The guard: !inputMessage.trim() || isAiResponding
Refused(input, responding) == Trim(input) = <<>> \/ responding

InitChat ==
    /\ messages = <<>>
    /\ inputMessage = <<>>
    /\ isAiResponding = FALSE
    /\ inFlight = <<>>
    /\ ignored = <<>>
    /\ AskIdle
    /\ ChunkIdle
    /\ IngestIdle
    /\ SingletonIdle
    /\ FormatIdle
    /\ RequestsIdle
    /\ EmbedIdle
    /\ NameIdle

\* onChange of the textarea, which is disabled while isAiResponding.
Type(v) ==
    /\ ~isAiResponding
    /\ v # inputMessage
    /\ inputMessage' = v
    /\ UNCHANGED <<messages, isAiResponding, inFlight, ignored>>
    /\ UNCHANGED exceptChat

\* handleChatSubmit up to the await of fetch. A refused submission returns
\* at the guard; an accepted one appends the user message, clears the input
\* and sets isAiResponding.
Submit ==
    IF Refused(inputMessage, isAiResponding)
    THEN /\ Len(ignored) < MaxIgnored
         /\ ignored' = Append(ignored, isAiResponding)
         /\ UNCHANGED <<messages, inputMessage, isAiResponding, inFlight>>
         /\ UNCHANGED exceptChat
    ELSE /\ Len(SelectSeq(messages, LAMBDA m : m.sender = "user")) < MaxSubmissions
         /\ messages' = Append(messages, [sender |-> "user", text |-> inputMessage])
         /\ inputMessage' = <<>>
         /\ isAiResponding' = TRUE
         /\ inFlight' = <<[message |-> inputMessage]>>
         /\ UNCHANGED ignored
         /\ UNCHANGED exceptChat

\* The rest of handleChatSubmit, after the fetch settles: the AI message of
\* the try block or of the catch block, then the finally block.
Settle(res) ==
    /\ inFlight # <<>>
    /\ messages' = Append(messages, [sender |-> "ai", text |-> AiText(res)])
    /\ isAiResponding' = RespondingAfter(res)
    /\ inFlight' = <<>>
    /\ UNCHANGED <<inputMessage, ignored>>
    /\ UNCHANGED exceptChat

Settles == \E res \in FetchResults : Settle(res)

NextChat ==
    \/ \E v \in Inputs : Type(v)
    \/ Submit
    \/ Settles

SpecChat == InitChat /\ [][NextChat]_vars

\* The fetch of a submission settles: the browser resolves or rejects it.
SpecChatFair == SpecChat /\ WF_vars(Settles)

(***************************************************************************)
(* The name hashed into a point id, for document ids made of letters,      *)
(* underscores and digits, src/scripts/ingest.mjs.                         *)
(***************************************************************************)
MaxIdLen == 3          \* longest document id, in characters
MaxPointIndex == 11    \* largest chunk index (two digits)

\* The characters of a document id.
IdChars == {"a", "_", "1"}

\* paperId: the base name of a file, never empty.
DocumentIds == SeqsUpTo(IdChars, MaxIdLen) \ {<<>>}

InitName ==
    /\ nPaperId \in DocumentIds
    /\ nIndex \in 0..MaxPointIndex
    /\ nName = <<>>
    /\ npc = "input"
    /\ AskIdle
    /\ ChunkIdle
    /\ IngestIdle
    /\ SingletonIdle
    /\ FormatIdle
    /\ RequestsIdle
    /\ EmbedIdle
    /\ ChatIdle

\* const chunkId = uuidv5(`${paperId}_${i}`, QDRANT_UUID_NAMESPACE): the name.
FormName ==
    /\ npc = "input"
    /\ nName' = PointName(nPaperId, nIndex)
    /\ npc' = "named"
    /\ UNCHANGED <<nPaperId, nIndex>>
    /\ UNCHANGED exceptName

NextName == FormName

SpecName == InitName /\ [][NextName]_vars

(***************************************************************************)
(* Properties of the fallback loop (checked under Spec).                   *)
(***************************************************************************)
HardFailure(c) == c.kind = "status" /\ ~Ok(c.status) /\ c.status # 429

\* C1: a provider answering with a non-2xx status other than 429 is the last
\* provider called, and the request ends in a 500 failure whose reason names
\* that provider and its status.
C1_HardFailureStops ==
    \A j \in 1..Len(calls) :
        HardFailure(calls[j]) =>
            /\ j = Len(calls)
            /\ pc = "done"
            /\ response.status = 500
            /\ response.response =
                   <<"System Error: ", "Model ", llmModelNames[j],
                     " failed with status ", ToString(calls[j].status), ".">>

\* C1 witness: outcomes [429, 500]: the loop stopped at the second provider.
C1_Witness ==
    /\ pc = "done"
    /\ Len(calls) = 2
    /\ calls[1].status = 429
    /\ calls[2].status = 500
    /\ response.response =
           <<"System Error: ", "Model ", "google/gemini-2.0-flash",
             " failed with status ", "500", ".">>

\* C2: the provider calls of a request are a prefix of llmModelNames, and
\* every call before the last one was answered with 429.
C2_CallsArePrefix ==
    /\ Len(calls) <= Len(llmModelNames)
    /\ \A j \in 1..Len(calls) :
          /\ j <= Len(llmModelNames) => calls[j].model = llmModelNames[j]
          /\ j < Len(calls) => (calls[j].kind = "status" /\ calls[j].status = 429)
    /\ \A j, k \in 1..Len(calls) : j # k => calls[j].model # calls[k].model

\* C2 witness: the third provider was called after two rate limits.
C2_Witness ==
    /\ Len(calls) = 3
    /\ calls[1].status = 429
    /\ calls[2].status = 429
    /\ calls[3].model = "mistralai/mistral-7b-instruct"

\* C3: a provider answering 2xx is the last provider called and the request
\* returns 200 with that provider's answer (content "X" gives answer "X").
C3_FirstSuccessReturns ==
    \A j \in 1..Len(calls) :
        (calls[j].kind = "status" /\ Ok(calls[j].status)) =>
            /\ j = Len(calls)
            /\ pc = "done"
            /\ response.status = 200
            /\ response.response # <<>>
            /\ response.response # Absent
            /\ calls[j].content = <<"X">> => response.response = <<"X">>

\* C3 witness: outcomes [429, 200 with content X]: success with answer X.
C3_Witness ==
    /\ pc = "done"
    /\ Len(calls) = 2
    /\ calls[1].status = 429
    /\ calls[2].status = 200
    /\ calls[2].content = <<"X">>
    /\ response = [status |-> 200, response |-> <<"X">>,
                   message |-> Absent, error |-> Absent,
     usage |-> Absent]

\* The loop was left without a success: the last provider called answered
\* with a non-2xx status.
LoopEndedWithoutSuccess ==
    /\ pc = "done"
    /\ Len(calls) > 0
    /\ calls[Len(calls)].kind = "status"
    /\ ~Ok(calls[Len(calls)].status)

\* C4: when the loop ends without a success the response is a 500 whose
\* answer is "System Error: " followed by the reason of the last provider
\* attempted; it is not empty and not a 200.
C4_FailureCarriesLastReason ==
    LoopEndedWithoutSuccess =>
        LET last == calls[Len(calls)]
        IN  /\ response.status = 500
            /\ response.response # <<>>
            /\ response.response =
                  IF last.status = 429
                  THEN <<"System Error: ", "Rate limit hit on ", last.model, ".">>
                  ELSE <<"System Error: ", "Model ", last.model,
                         " failed with status ", ToString(last.status), ".">>

\* C4 witness: every provider was rate limited.
C4_Witness ==
    /\ pc = "done"
    /\ Len(calls) = 3
    /\ \A j \in 1..3 : calls[j].status = 429
    /\ response.response =
          <<"System Error: ", "Rate limit hit on ", "mistralai/mistral-7b-instruct", ".">>

(***************************************************************************)
(* Properties of the retrieval loop and formatContext (checked under Spec).*)
(***************************************************************************)
\* The retrieval loop of this request ran to its break.
RetrievalDone == pc = "llm" \/ Len(calls) > 0

\* The chunk texts of paper p with index >= lo, in ascending index order.
RECURSIVE TextsFrom(_, _)
TextsFrom(p, lo) ==
    IF lo > MaxChunkIndex + 1 THEN <<>>
    ELSE IF \E k \in 1..Len(stored) : stored[k].paperId = p /\ stored[k].chunkIndex = lo
         THEN <<ChunkTextOf(p, lo)>> \o TextsFrom(p, lo + 1)
         ELSE TextsFrom(p, lo + 1)

\* C5: with a store that pages through the matching points and ends the
\* scan with a null cursor, the accumulator holds every stored chunk of the
\* paper exactly once and the context is their texts in ascending
\* chunkIndex order joined by newlines.
C5_ExhaustiveRetrieval ==
    (storeKind = "nullEnd" /\ RetrievalDone) =>
        /\ Len(allChunks) = Len(Matching(reqPaperId))
        /\ Range(allChunks) = Range(Matching(reqPaperId))
        /\ Len(allChunks) > 0 =>
              context = Join(TextsFrom(reqPaperId, 0), <<"\n">>)

\* C5 witness: chunks [2, 0, 1] arrive over two pages and assemble in order.
C5_Witness ==
    /\ storeKind = "nullEnd"
    /\ pc = "llm"
    /\ Len(scrolls) = 2
    /\ Len(scrolls[1].page.points) = 2
    /\ scrolls[1].page.points[1].chunkIndex = 2
    /\ scrolls[1].page.points[2].chunkIndex = 0
    /\ scrolls[2].page.points[1].chunkIndex = 1
    /\ context = <<"p1", "#", "0", "\n", "p1", "#", "1", "\n", "p1", "#", "2">>

\* C6 (as claimed): a page without a next cursor (null or absent), or with
\* zero points, is the last page fetched by the request.
C6_StopsWithoutCursorOrPoints ==
    \A j \in 1..Len(scrolls) :
        (\/ scrolls[j].page.next_page_offset \in {NullCursor, Undefined}
         \/ Len(scrolls[j].page.points) = 0)
            => j = Len(scrolls)

\* C7: when retrieval found no chunk, the context is the no-data sentinel.
C7_NoDataSentinel ==
    (RetrievalDone /\ Len(allChunks) = 0) =>
        /\ context = <<"No text data was retrieved for the paper.">>
        /\ context # <<>>

\* C7 witness: the paper asked about has no stored chunk.
C7_Witness ==
    /\ pc = "llm"
    /\ Len(Matching(reqPaperId)) = 0
    /\ Len(allChunks) = 0
    /\ context = <<"No text data was retrieved for the paper.">>

(***************************************************************************)
(* Properties of chunkText (checked under SpecChunk).                      *)
(***************************************************************************)
\* C8: the loop runs at most once per character of the text, and chunkText
\* is never stuck before it returns.
C8_ChunkTerminates ==
    /\ iters <= Len(text)
    /\ cpc = "done" \/ ENABLED NextChunk

\* C8 witness: a degenerate call (overlap > size) on a long text returned.
C8_Witness ==
    /\ cpc = "done"
    /\ overlap > size
    /\ Len(text) > size
    /\ iters >= 2

\* ceil(a / b) for b > 0
CeilDiv(a, b) == (a + b - 1) \div b

\* The windows of width sz taken every step characters over the text.
WindowsEvery(step, sz) ==
    [k \in 1..CeilDiv(Len(text), step) |->
        SubSeq(text, (k - 1) * step + 1, Min((k - 1) * step + sz, Len(text)))]

LoopOver == cpc \in {"filter", "done"}

\* C9 (as claimed): with size - overlap <= 0 the windows start at
\* 0, size, 2*size, ... up to the end of the text.
C9_DegenerateStepCovers ==
    (LoopOver /\ size - overlap <= 0) => chunks = WindowsEvery(size, size)

\* C10: with size > overlap the windows are exactly those starting at
\* k*(size - overlap) for every k with k*(size - overlap) < text length,
\* each of at most size characters.
C10_WindowsAtMultiplesOfStep ==
    (LoopOver /\ size > overlap) => chunks = WindowsEvery(size - overlap, size)

\* C10 witness: an overlapping call that produced at least three windows.
C10_Witness ==
    /\ cpc = "done"
    /\ size > overlap
    /\ overlap > 0
    /\ Len(chunks) >= 3
    /\ chunks[2] = SubSeq(text, size - overlap + 1, Min(2 * size - overlap, Len(text)))

\* The part of the k-th chunk of a list that does not overlap its predecessor.
FreshPart(cs, k) ==
    IF k = 1 THEN cs[k]
    ELSE IF Len(cs[k]) <= overlap THEN <<>>
    ELSE SubSeq(cs[k], overlap + 1, Len(cs[k]))

\* The non-overlapping parts of the chunks of a list, concatenated in order.
RECURSIVE ConcatFresh(_, _)
ConcatFresh(cs, k) ==
    IF k > Len(cs) THEN <<>> ELSE FreshPart(cs, k) \o ConcatFresh(cs, k + 1)

\* C11 (as claimed): for size > overlap the non-overlapping parts of the
\* returned chunks concatenate to the whole text.
C11_ReturnedChunksReconstruct ==
    (cpc = "done" /\ size > overlap) => ConcatFresh(result, 1) = text

\* C11 (amended): for size > overlap the non-overlapping parts of the windows
\* before the filter concatenate to the whole text, and so do those of the
\* returned chunks whenever the filter dropped no window.
C11_WindowsReconstruct ==
    (cpc = "done" /\ size > overlap) =>
        /\ ConcatFresh(chunks, 1) = text
        /\ (\A k \in 1..Len(chunks) : KeepChunk(chunks[k])) => ConcatFresh(result, 1) = text

\* C11 witness: an overlapping call with three returned chunks whose fresh
\* parts give back the text.
C11_Witness ==
    /\ cpc = "done"
    /\ size > overlap
    /\ overlap > 0
    /\ Len(result) >= 3
    /\ result = chunks
    /\ ConcatFresh(result, 1) = text

\* C12: every returned chunk has between 1 and size characters and at least
\* one character that is not whitespace.
C12_ReturnedChunksBounded ==
    cpc = "done" =>
        \A k \in 1..Len(result) :
            /\ Len(result[k]) >= 1
            /\ Len(result[k]) <= size
            /\ \E c \in 1..Len(result[k]) : result[k][c] # " "

\* C12 witness: a whitespace-only window was dropped and a chunk was kept.
C12_Witness ==
    /\ cpc = "done"
    /\ Len(result) >= 1
    /\ Len(result) < Len(chunks)
    /\ \E k \in 1..Len(chunks) : \A c \in 1..Len(chunks[k]) : chunks[k][c] = " "

(***************************************************************************)
(* Properties of ingestData (checked under SpecIngest).                    *)
(***************************************************************************)
SamePair(x, y) == x.paperId = y.paperId /\ x.chunkIndex = y.chunkIndex

\* C13: points of the same (document id, chunk index) carry the same id,
\* in this run and in the earlier one, and the collection never holds two
\* points for the same pair, also after a failed write was sent again.
C13_OnePointPerChunk ==
    /\ \A x, y \in qPoints \cup Range(built) \cup priorPoints : SamePair(x, y) => x.id = y.id
    /\ \A x, y \in qPoints : SamePair(x, y) => x = y

\* C13 witness: after an earlier run, a write that failed although the store
\* applied it is sent again with more points; one point per chunk is stored.
C13_Witness ==
    /\ priorPoints # {}
    /\ Len(upserts) = 2
    /\ upserts[1].outcome = "failedApplied"
    /\ upserts[2].outcome = "ok"
    /\ Range(upserts[1].points) \subseteq Range(upserts[2].points)
    /\ Cardinality(qPoints) = Len(upserts[2].points)

\* C14 (as claimed): after a document whose iteration failed at a stage, the
\* run is still going and has moved on to the next document.
C14_FailedDocumentIsSkipped ==
    \A k \in 1..Len(processed) :
        (processed[k].how # "persisted" /\ k < Len(pdfFiles)) =>
            /\ ipc # "crashed"
            /\ fileIdx > k

\* C15: an upsert call that did not succeed leaves the buffer as it was when
\* the call was made, and the buffer shrinks only in a step whose upsert
\* call succeeded.
C15_BufferKeptUnlessWritten ==
    [][ /\ Len(upserts') > Len(upserts) =>
              (upserts'[Len(upserts')].outcome # "ok" =>
                   /\ qdrantPointsBatch' = qdrantPointsBatch
                   /\ qdrantPointsBatch' = upserts'[Len(upserts')].points)
        /\ Len(qdrantPointsBatch') < Len(qdrantPointsBatch) =>
              /\ Len(upserts') = Len(upserts) + 1
              /\ upserts'[Len(upserts')].outcome = "ok"
              /\ upserts'[Len(upserts')].points = qdrantPointsBatch ]_vars

\* C15 witness: a failed upsert left its points in the buffer, and the next
\* call, which succeeded, emptied it.
C15_Witness ==
    /\ Len(upserts) = 2
    /\ upserts[1].outcome = "failed"
    /\ upserts[2].outcome = "ok"
    /\ ~upserts[2].final
    /\ Len(upserts[2].points) > Len(upserts[1].points)
    /\ qdrantPointsBatch = <<>>

RunOver == ipc \in {"done", "crashed"}

NoWriteFailed == \A k \in 1..Len(upserts) : upserts[k].outcome = "ok"

\* The points of all upsert calls, in order.
RECURSIVE Sent(_)
Sent(k) == IF k = 0 THEN <<>> ELSE Sent(k - 1) \o upserts[k].points

\* C16 (as claimed): when a run in which no write failed is over, the calls
\* were made at every full buffer and once for the remainder, the collection
\* holds exactly the points built, and nothing is left unwritten.
C16_EverythingWrittenWhenNoWriteFails ==
    (RunOver /\ NoWriteFailed) =>
        /\ qPoints = Range(built)
        /\ Sent(Len(upserts)) = built
        /\ \A k \in 1..Len(upserts) :
              IF upserts[k].final
              THEN Len(upserts[k].points) \in 1..(BatchSize - 1)
              ELSE Len(upserts[k].points) = BatchSize

\* C17: once the document loop runs, the chunkIndex values stored for a
\* document are 0..n-1 without gap or repeat.
C17_StoredIndicesContiguous ==
    fileIdx >= 1 =>
        /\ \A x \in qPoints : \A i \in 0..x.chunkIndex :
              \E y \in qPoints : y.paperId = x.paperId /\ y.chunkIndex = i
        /\ \A x, y \in qPoints : SamePair(x, y) => x = y

\* C17 witness: the run is over, the last write failed, and the collection
\* holds a proper part of what was built.
C17_Witness ==
    /\ ipc = "done"
    /\ qPoints # {}
    /\ Cardinality(qPoints) < Len(built)
    /\ \E x \in qPoints : x.chunkIndex = 1

DocumentsUntouched ==
    /\ fileIdx = 0
    /\ processed = <<>>
    /\ built = <<>>
    /\ upserts = <<>>
    /\ tsDocs \subseteq {pt.paperId : pt \in priorPoints}

\* C18 (as claimed): after any setup error, no document is processed.
C18_AnySetupErrorAborts == setupFailure # "none" => DocumentsUntouched

\* C18 (amended): after a setup error other than an error of the Typesense
\* delete, the run has returned and no document is processed.
C18_SetupErrorAborts ==
    setupFailure \notin {"none", "tsDeleteError"} =>
        /\ ipc = "returned"
        /\ DocumentsUntouched

\* C18 witness: the payload index could not be created and the run returned.
C18_Witness ==
    /\ setupFailure = "qIndex"
    /\ ipc = "returned"
    /\ qExists

SetupSteps == {"tsDelete", "tsCreate", "qGet", "qDelete", "qCreate", "qIndex"}

\* C19: when setup has succeeded both collections exist and are empty, and
\* from then on they hold only what this run wrote.
C19_SetupLeavesEmptyCollections ==
    /\ ipc = "loadModel" => (tsExists /\ qExists /\ tsDocs = {} /\ qPoints = {})
    /\ ipc \notin SetupSteps \cup {"returned"} =>
          /\ tsExists
          /\ qExists
          /\ qPoints \subseteq Range(built)
          /\ tsDocs \subseteq {PaperIdOf(pdfFiles[k]) : k \in 1..Len(pdfFiles)}

\* C19 witness: the collections of an earlier run were found and replaced.
C19_Witness ==
    /\ ipc = "loadModel"
    /\ priorPoints # {}
    /\ setupFailure = "none"
    /\ qPoints = {}
    /\ tsDocs = {}

\* C20 (as claimed): every response of the handler exists, and one that is
\* not a success carries a "System Error: ..." string in the response field.
C20_FailuresCarrySystemError ==
    pc = "done" =>
        /\ response.status # 0
        /\ response.status # 200 =>
              /\ response.response # Absent
              /\ response.response[1] = "System Error: "

(***************************************************************************)
(* A provider call that throws (checked under Spec).                       *)
(***************************************************************************)
\* C21: a provider call that throws or times out is handled like a hard
\* failure of that provider: it is the last call, a reason is recorded in
\* lastError, and the request ends with the failure result of the loop
\* (status 500, answer "System Error: ..." in the response field).
C21_ThrowHandledLikeHardFailure ==
    \A j \in 1..Len(calls) :
        calls[j].kind = "throws" =>
            /\ j = Len(calls)
            /\ pc = "done"
            /\ Truthy(lastError)
            /\ response.status = 500
            /\ response.response # Absent
            /\ response.response[1] = "System Error: "

(***************************************************************************)
(* The success result (checked under Spec).                                *)
(***************************************************************************)
\* The content has a character that is not white space.
HasText(c) == c # NoContent /\ \E k \in 1..Len(c) : ~IsSpace(c[k])

\* t is c without its leading and trailing white space.
IsTrimOf(t, c) ==
    \E a \in 1..Len(c) : \E b \in a..Len(c) :
        /\ t = SubSeq(c, a, b)
        /\ ~IsSpace(c[a]) /\ ~IsSpace(c[b])
        /\ \A k \in 1..Len(c) : (k < a \/ k > b) => IsSpace(c[k])

Succeeded == pc = "done" /\ response.status = 200

\* C23: on a 2xx provider response the answer is the trimmed content of the
\* first choice, or the "I couldn't find ..." sentinel when the content is
\* missing or empty after trimming; the answer is never the empty string.
C23_AnswerIsTrimmedContentOrSentinel ==
    Succeeded =>
        LET c == calls[Len(calls)].content
        IN  /\ HasText(c) => IsTrimOf(response.response, c)
            /\ ~HasText(c) => response.response = NotFoundAnswer
            /\ response.response # <<>>

\* C23 witness: a 2xx answer whose content " X " was returned as "X".
C23_Witness ==
    /\ Succeeded
    /\ calls[Len(calls)].content = <<" ", "X", " ">>
    /\ response.response = <<"X">>

\* C24: a success result carries the provider's usage object when the
\* provider response has one, and an explicit null otherwise.
C24_SuccessCarriesUsage ==
    Succeeded =>
        LET u == calls[Len(calls)].usage
        IN  response.usage = IF u = Absent \/ u = Null THEN Null ELSE u

(***************************************************************************)
(* File selection, the final report, the stages of a document and the     *)
(* size of the batches (checked under SpecIngest).                         *)
(***************************************************************************)
\* The entry has the PDF extension, in either case.
HasPdfExtension(entry) == entry.ext \in {".pdf", ".PDF"}

\* C26: the run processes exactly the entries with the PDF extension, and
\* the document id of every accepted file, in the metadata, the payloads and
\* the point ids, is its name without the extension, also for ".PDF".
C26_IdIsNameWithoutExtension ==
    fileIdx > 0 =>
        /\ pdfFiles = SelectSeq(listing, HasPdfExtension)
        /\ \A k \in 1..Len(processed) : processed[k].paperId = pdfFiles[k].stem
        /\ \A d \in tsDocs : \E k \in 1..Len(pdfFiles) : d = pdfFiles[k].stem
        /\ \A k \in 1..Len(built) :
               \E f \in 1..Len(pdfFiles) :
                   /\ built[k].paperId = pdfFiles[f].stem
                   /\ built[k].id = <<"uuidv5">> \o pdfFiles[f].stem
                                        \o <<"_", Digit[built[k].chunkIndex + 1]>>

\* C27: the final report says success only if every upsert of buffered
\* points succeeded.
C27_SuccessReportMeansAllWritten ==
    report = "completed successfully" =>
        \A k \in 1..Len(upserts) : upserts[k].outcome = "ok"

StageRank(name) == CHOOSE r \in 1..Len(StageNames) : StageNames[r] = name

\* C29: the stages of a document run in the order metadata, extraction,
\* chunking, embedding, point building, each only after the one before it
\* succeeded; a document that did not pass every stage has no point in the
\* buffer; once the collections are set up, every document with points in
\* the vector store has a metadata record.
C29_StagesInOrder ==
    /\ \A k \in 1..Len(stages) :
           IF k = 1 \/ stages[k - 1].paperId # stages[k].paperId
           THEN stages[k].stage = "metadata"
           ELSE /\ stages[k - 1].ok
                /\ \/ StageRank(stages[k].stage) = StageRank(stages[k - 1].stage) + 1
                   \/ stages[k].stage = "point" /\ stages[k - 1].stage = "point"
    /\ \A k \in 1..Len(stages) :
           ~stages[k].ok =>
               /\ \A b \in 1..Len(built) : built[b].paperId # stages[k].paperId
               /\ \A b \in 1..Len(qdrantPointsBatch) :
                      qdrantPointsBatch[b].paperId # stages[k].paperId
    /\ fileIdx > 0 => \A pt \in qPoints : pt.paperId \in tsDocs

\* C29 witness: a document failed at embedding after one before it was
\* persisted and written: only the first has points.
C29_Witness ==
    /\ Len(processed) = 2
    /\ processed[1].how = "persisted"
    /\ processed[2].how = "embeddingFailed"
    /\ \E pt \in qPoints : pt.paperId = processed[1].paperId
    /\ Len(stages) > 5

\* C30: every upsert call carries at most BatchSize points: a flush of the
\* point loop exactly BatchSize, the final flush between 1 and BatchSize - 1.
C30_BatchesWithinThreshold ==
    \A k \in 1..Len(upserts) :
        LET n == Len(upserts[k].points)
        IN  /\ n <= BatchSize
            /\ ~upserts[k].final => n = BatchSize
            /\ upserts[k].final => n >= 1 /\ n <= BatchSize - 1

(***************************************************************************)
(* The embedding model singleton (checked under SpecSingleton).            *)
(***************************************************************************)
\* C22: at most one load is in flight; a caller that invokes getInstance
\* while a load is in flight starts none and gets the promise of that load;
\* once a load has succeeded no further load is started.
C22_OneLoadAtATime ==
    /\ Cardinality(Pending) <= 1
    /\ \A c \in 1..Len(callers) :
           callers[c].during # 0 =>
               ~callers[c].started /\ callers[c].got = callers[c].during
    /\ \A i \in 1..Len(loads) : i < Len(loads) => loads[i] = "rejected"

\* C22 witness: after a failed load a second one is in flight, started by one
\* caller, and another caller that came during it holds the same promise.
C22_Witness ==
    /\ loads = <<"rejected", "pending">>
    /\ \E c, d \in 1..Len(callers) :
           /\ c # d
           /\ callers[c].started /\ callers[c].got = 2
           /\ ~callers[d].started /\ callers[d].during = 2 /\ callers[d].got = 2

(***************************************************************************)
(* Ordering of chunks without an index (checked under SpecFormat).         *)
(***************************************************************************)
NoIndex(pt) == ~HasIndex(pt)

\* C25: after formatContext the chunks with a chunkIndex are in ascending
\* order of it and in front of every chunk without one; the chunks with an
\* index stand as they would if the list held no index-less chunk, and the
\* returned text follows that order.
C25_IndexlessChunksSortLast ==
    fcpc = "done" =>
        /\ \A i, j \in 1..Len(fcChunks) :
               i < j =>
                   /\ HasIndex(fcChunks[j]) => HasIndex(fcChunks[i])
                   /\ HasIndex(fcChunks[j]) =>
                          fcChunks[i].chunkIndex <= fcChunks[j].chunkIndex
        /\ SelectSeq(fcChunks, HasIndex) = SortByIndex(SelectSeq(fcInput, HasIndex))
        /\ SelectSeq(fcChunks, NoIndex) = SelectSeq(fcInput, NoIndex)
        /\ Len(fcInput) > 0 =>
               fcResult = Join([k \in 1..Len(fcChunks) |-> TextOf(fcChunks[k])], <<"\n">>)

\* C25 witness: an index-less chunk in front of chunks 1 and 0 ended last.
C25_Witness ==
    /\ fcpc = "done"
    /\ fcInput = <<IndexlessPoint("p1", "x"), Point("p1", 1), Point("p1", 0)>>
    /\ fcChunks = <<Point("p1", 0), Point("p1", 1), IndexlessPoint("p1", "x")>>

(***************************************************************************)
(* Isolation of concurrent requests (checked under SpecRequests).          *)
(***************************************************************************)
\* C28: every invocation starts with an empty accumulator and no cursor, its
\* first scroll call carries no cursor (also when it is a retry after an
\* aborted invocation), and what it has accumulated is exactly what its own
\* scroll calls returned: points of its own paper only.
C28_RequestsShareNoRetrievalState ==
    \A r \in 1..Len(requests) :
        LET q == requests[r]
        IN  /\ (q.pc = "scroll" /\ q.sent = <<>>) =>
                   q.allChunks = <<>> /\ q.offset = Undefined
            /\ q.sent # <<>> => q.sent[1] = Undefined
            /\ q.pc \in {"scroll", "done"} => q.allChunks = q.fetched
            /\ q.pc \in {"scroll", "done"} =>
                   \A k \in 1..Len(q.allChunks) : q.allChunks[k].paperId = q.paperId

\* C28 witness: a retry that read p1 to the end while another request read
\* p2; each holds its own chunks.
C28_Witness ==
    /\ requests[1].paperId = "p1" /\ requests[1].attempt = 2
    /\ requests[1].pc = "done" /\ Len(requests[1].allChunks) = 3
    /\ requests[2].paperId = "p2" /\ requests[2].pc = "done"
    /\ Len(requests[2].allChunks) = 1
    /\ Len(requests[1].sent) = 2

(***************************************************************************)
(* What a question sees after an ingestion run (checked under              *)
(* SpecEndToEnd).                                                          *)
(***************************************************************************)
\* The run got to its end, every document was persisted or had no chunks,
\* and every upsert call succeeded.
RunWithoutFailures ==
    /\ ipc = "done"
    /\ Len(processed) = Len(pdfFiles)
    /\ \A k \in 1..Len(processed) : processed[k].how \in {"persisted", "noChunks"}
    /\ \A k \in 1..Len(upserts) : upserts[k].outcome = "ok"

\* The number of points the run built for document d.
BuiltFor(d) == Cardinality({k \in 1..Len(built) : built[k].paperId = d})

\* C31: after a run without failures, the retrieval for a document d the run
\* wrote points for ends with exactly the points built for d, in index
\* order, and the context is their chunk texts (the chunks of d's text)
\* joined by newlines.
C31_ContextIsTheDocumentsChunks ==
    (pc = "llm" /\ RunWithoutFailures /\ BuiltFor(reqPaperId) > 0) =>
        LET n == BuiltFor(reqPaperId)
        IN  /\ allChunks = [i \in 1..n |-> BuildPoint(reqPaperId, i - 1)]
            /\ context = Join([i \in 1..n |-> DocChunkText(reqPaperId, i - 1)], <<"\n">>)

\* C31 witness: two documents were ingested, the store scans the three
\* chunks of the document asked about out of order, in two pages.
C31_Witness ==
    /\ pc = "llm"
    /\ RunWithoutFailures
    /\ Len(pdfFiles) = 2
    /\ BuiltFor(reqPaperId) = 3
    /\ Len(scrolls) = 2
    /\ scrolls[1].page.points[1].chunkIndex # 0
    /\ \E pt \in qPoints : pt.paperId # reqPaperId

(***************************************************************************)
(* Vectors and chunks (checked under SpecEmbed).                           *)
(***************************************************************************)
\* C32: after the embedding loop there is one vector per chunk, in chunk
\* order, and the point with chunkIndex i carries the vector of chunk i.
C32_OneVectorPerChunkInOrder ==
    /\ epc \in {"points", "done"} =>
           /\ Len(chunkEmbeddings) = Len(eChunks)
           /\ \A k \in 1..Len(eChunks) : chunkEmbeddings[k] = VectorOf(eChunks[k])
    /\ epc = "done" =>
           /\ Len(ePoints) = Len(eChunks)
           /\ \A k \in 1..Len(ePoints) :
                  /\ ePoints[k].chunkText = eChunks[ePoints[k].chunkIndex + 1]
                  /\ ePoints[k].vector = VectorOf(eChunks[ePoints[k].chunkIndex + 1])

\* C32 witness: the longest document, embedded in more than one sub-batch;
\* the last point carries the vector of the last chunk, a text different
\* from the one before it.
C32_Witness ==
    /\ epc = "done"
    /\ Len(eChunks) = MaxEmbedChunks
    /\ eIdx >= 2 * EmbeddingBatchSize
    /\ eChunks[MaxEmbedChunks - 1] # eChunks[MaxEmbedChunks]
    /\ ePoints[MaxEmbedChunks].vector = VectorOf(eChunks[MaxEmbedChunks])

(***************************************************************************)
(* Emptiness of the context (checked under SpecFormat).                    *)
(***************************************************************************)
\* C33: the string formatContext returns is not empty, whatever the list of
\* points, points with a missing or an empty chunkText included.
C33_ContextNeverEmpty == fcpc = "done" => fcResult # <<>>

(***************************************************************************)
(* Requests without paperId or message (checked under Spec).               *)
(***************************************************************************)
\* C34: a request whose body lacks paperId or message (missing or empty)
\* causes no scroll call and no provider call, and it is answered with
\* status 400.
C34_MissingFieldIsRefused ==
    (reqBody = "object" /\ (reqPaperId = "" \/ reqMessage = "")) =>
        /\ scrolls = <<>>
        /\ calls = <<>>
        /\ pc \in {"start", "done"}
        /\ pc = "done" => response = BadRequestResponse

\* C34 witness: a request with a paperId and an empty message was answered
\* with 400.
C34_Witness ==
    /\ pc = "done"
    /\ reqBody = "object"
    /\ reqPaperId # ""
    /\ reqMessage = ""
    /\ response.status = 400
    /\ scrolls = <<>>
    /\ calls = <<>>

(***************************************************************************)
(* The exchanges of the chat (checked under SpecChatFair).                 *)
(***************************************************************************)
IsUserMessage(m) == m.sender = "user"

\* The messages alternate user, ai, user, ai, ...; an exchange is open
\* exactly while isAiResponding; an AI message is the answer or a
\* 'System Error' message.
ExchangesWellFormed ==
    /\ \A k \in 1..Len(messages) :
           messages[k].sender = (IF k % 2 = 1 THEN "user" ELSE "ai")
    /\ \A k \in 1..Len(messages) :
           IF k % 2 = 1
           THEN Trim(messages[k].text) # <<>>
           ELSE \/ messages[k].text = <<"X">>
                \/ messages[k].text[1] = "System Error: Failed to get response. Details: "
    /\ isAiResponding = (Len(messages) % 2 = 1)
    /\ isAiResponding = (inFlight # <<>>)
    /\ inFlight # <<>> => inFlight[1].message = messages[Len(messages)].text

\* C35: every accepted submission appends exactly one user message, which is
\* followed eventually by exactly one AI message (the answer or a 'System
\* Error' message); isAiResponding is true during the request and false
\* after it, whether it succeeded or failed; a submission made while
\* isAiResponding is true changes nothing.
C35_OneAnswerPerSubmission ==
    /\ []ExchangesWellFormed
    /\ [][/\ Len(messages') <= Len(messages) + 1
          /\ SubSeq(messages', 1, Len(messages)) = messages
          /\ (isAiResponding /\ isAiResponding') =>
                 UNCHANGED <<messages, inputMessage, inFlight>>
          /\ ignored' # ignored =>
                 UNCHANGED <<messages, inputMessage, isAiResponding, inFlight>>]_vars
    /\ \A n \in 1..MaxSubmissions :
           (Len(messages) = 2 * n - 1 /\ isAiResponding)
               ~> (Len(messages) = 2 * n /\ ~isAiResponding)

\* C35 witness: two exchanges are complete, the first answered, the second
\* ended with a 'System Error' message, and a submission made while the
\* answer was pending returned at the guard.
C35_Witness ==
    /\ Len(messages) = 4
    /\ messages[2].text = <<"X">>
    /\ messages[4].text[1] = "System Error: Failed to get response. Details: "
    /\ ~isAiResponding
    /\ \E k \in 1..Len(ignored) : ignored[k]

(***************************************************************************)
(* Names of chunks (checked under SpecName).                               *)
(***************************************************************************)
\* C36: the name of a (document id, chunk index) pair is the name of no
\* other pair, also for ids that contain underscores and digits; the point
\* ids, a fixed function of the name, differ with the names.
C36_NameIsInjective ==
    npc = "named" =>
        \A d \in DocumentIds : \A j \in 0..MaxPointIndex :
            (d # nPaperId \/ j # nIndex) =>
                /\ PointName(d, j) # nName
                /\ PointId(d, j) # <<"uuidv5">> \o nName

\* C36 witness: the name of chunk 1 of the document a_1 was formed; it
\* starts with the name of chunk 1 of the document a and ends like the
\* name of chunk 11 of a document.
C36_Witness ==
    /\ npc = "named"
    /\ nPaperId = <<"a", "_", "1">>
    /\ nIndex = 1
    /\ nName = <<"a", "_", "1", "_", "1">>
    /\ PointName(<<"a">>, 11) = <<"a", "_", "1", "1">>

(***************************************************************************)
(* A failed load (checked under SpecSingleton).                            *)
(***************************************************************************)
\* C37: when a load fails, the caller that started it resets the field and
\* rethrows; from then on the field never holds that load, a call of
\* getInstance made when the field is null starts a new load, and no call
\* returns the promise of a load whose failure has been caught.
C37_FailedLoadIsNotReused ==
    /\ \A c \in 1..Len(callers) :
           /\ callers[c].pc = "threw" =>
                  /\ callers[c].started
                  /\ loads[callers[c].got] = "rejected"
                  /\ callers[c].got \in callers[c].caught
           /\ (callers[c].started /\ callers[c].pc = "returned") =>
                  loads[callers[c].got] = "resolved"
           /\ callers[c].pc = "returned" => callers[c].got # 0
           /\ callers[c].handed # "caught"
           /\ callers[c].got \in Caught =>
                  callers[c].started \/ callers[c].handed \in {"pending", "rejected"}
    /\ instancePromise \notin Caught
    /\ \A i \in 1..Len(loads) :
           i \in Caught => \A j \in 1..Len(loads) : j > i => j \notin Pending \/ instancePromise = j

\* C37 witness: the first load failed and its failure was caught and
\* rethrown; a later call started the second load, which the field holds.
C37_Witness ==
    /\ Len(loads) = 2
    /\ Caught = {1}
    /\ instancePromise = 2
    /\ \E c, d \in 1..Len(callers) :
           /\ c # d
           /\ callers[c].pc = "threw" /\ callers[c].got = 1
           /\ callers[d].started /\ callers[d].got = 2

====
